---- MODULE Spec2Model ----
(***************************************************************************)
(* Model of the podcast guest tracker: the relevance scorer                *)
(* (relevance_scoring_engine.py), the narration client (ollama_client.py)  *)
(* and the orchestrator with its host-analysis cache                       *)
(* (podcast_guest_tracker.py).                                             *)
(*                                                                         *)
(* Python strings are sequences of one-character strings, so that          *)
(* lower(), split(), len() and the substring test `a in b` are computed.   *)
(* Scores are exact decimals held as integers in units of 1/Scale.         *)
(***************************************************************************)
EXTENDS Integers, Sequences, FiniteSets, TLC

VARIABLES
    now,            \* time.time(), in seconds
    host_cache,     \* self.host_cache: channel url -> [data, timestamp]
    weights,        \* self.relevance_scorer.weights, in percent
    analyzer_calls, \* number of analyze_host_channel invocations so far
    ops,            \* number of top-level calls started so far
    pc,             \* position of the running call
    call,           \* arguments of the running top-level call
    cur,            \* locals of analyze_podcast_guest_complete
    batch,          \* locals of batch_analyze_guests
    ret,            \* value returned by the last analyze_podcast_guest_complete
    batch_ret,      \* value returned by the last batch_analyze_guests
    events,         \* what the running top-level call has done so far, in order
    tasks,          \* the asyncio tasks sharing the tracker: position and locals
    running,        \* the task the event loop is executing, 0 when none
    response        \* value returned by the last PodcastGuestTrackerAPI call

vars ==
    << now, host_cache, weights, analyzer_calls, ops, pc, call, cur, batch,
       ret, batch_ret, events, tasks, running, response >>

----------------------------------------------------------------------------
(* Bounds of the model                                                     *)

MaxOps == 2
MaxGuests == 2

(* Program constants                                                       *)

\* podcast_guest_tracker.py:84  `if cache_age < 86400`
TTL == 86400

\* every increment of the scorer (0.02, 0.04, 0.05, 0.1, 0.15, k/n for
\* n <= 6 channel keywords) is a whole number of 1/Scale
Scale == 6000

----------------------------------------------------------------------------
(* Python text                                                             *)

UpperCase ==
    <<"A", "B", "C", "D", "E", "F", "G", "H", "I", "J", "K", "L", "M",
      "N", "O", "P", "Q", "R", "S", "T", "U", "V", "W", "X", "Y", "Z">>

LowerCase ==
    <<"a", "b", "c", "d", "e", "f", "g", "h", "i", "j", "k", "l", "m",
      "n", "o", "p", "q", "r", "s", "t", "u", "v", "w", "x", "y", "z">>

\* str.lower() on one character
LowerChar(c) ==
    IF \E i \in 1..26 : UpperCase[i] = c
    THEN LowerCase[CHOOSE i \in 1..26 : UpperCase[i] = c]
    ELSE c

\* str.lower()
Lower(s) ==
    [i \in 1..Len(s) |-> LowerChar(s[i])]

\* `a in b` for two strings
IsSubstr(a, b) ==
    \E i \in 0..(Len(b) - Len(a)) : SubSeq(b, i + 1, i + Len(a)) = a

\* str.split(): the maximal runs of non-blank characters, in order
WordStarts(s) ==
    { i \in 1..Len(s) : s[i] # " " /\ (i = 1 \/ s[i - 1] = " ") }

WordEnd(s, i) ==
    CHOOSE j \in i..Len(s) :
        /\ \A k \in i..j : s[k] # " "
        /\ (j = Len(s) \/ s[j + 1] = " ")

Split(s) ==
    LET starts == WordStarts(s)
        start(n) == CHOOSE i \in starts :
                        Cardinality({j \in starts : j < i}) = n - 1
    IN  [n \in 1..Cardinality(starts) |-> SubSeq(s, start(n), WordEnd(s, start(n)))]

\* str.strip() of blanks
RECURSIVE Strip(_)
Strip(s) ==
    IF s = <<>> THEN s
    ELSE IF Head(s) = " " THEN Strip(Tail(s))
    ELSE IF s[Len(s)] = " " THEN Strip(SubSeq(s, 1, Len(s) - 1))
    ELSE s

Range(f) ==
    {f[i] : i \in DOMAIN f}

Min(a, b) ==
    IF a <= b THEN a ELSE b

Max(a, b) ==
    IF a >= b THEN a ELSE b

Digits ==
    <<"0", "1", "2", "3", "4", "5", "6", "7", "8", "9">>

IsDigit(c) ==
    \E d \in 1..10 : Digits[d] = c

DigitValue(c) ==
    (CHOOSE d \in 1..10 : Digits[d] = c) - 1

RECURSIVE DigitsValue(_)
DigitsValue(s) ==
    IF s = <<>> THEN 0
    ELSE 10 * DigitsValue(SubSeq(s, 1, Len(s) - 1)) + DigitValue(s[Len(s)])

\* s with every occurrence of the character c removed: s.replace(c, '')
RemoveChar(s, c) ==
    SelectSeq(s, LAMBDA x : x # c)

----------------------------------------------------------------------------
(* Values of the open mappings the program passes around.  A field holds   *)
(* a str, a list of str or a dict; an absent key is absent from the record.*)

Str(s) ==
    [t |-> "str", v |-> s]

List(l) ==
    [t |-> "list", v |-> l]

Dict(d) ==
    [t |-> "dict", v |-> d]

Has(m, key) ==
    key \in DOMAIN m

\* dict.get(key, default)
Get(m, key, default) ==
    IF key \in DOMAIN m THEN m[key] ELSE default

\* bool(x) of a str, list or dict
Truthy(x) ==
    IF x.t = "dict" THEN DOMAIN x.v # {} ELSE Len(x.v) > 0

\* the elements `for item in x` yields: the characters of a str, the
\* members of a list
Items(x) ==
    IF x.t = "str" THEN [i \in 1..Len(x.v) |-> <<x.v[i]>>] ELSE x.v

\* len(x) of a str or list
PyLen(x) ==
    Len(x.v)

EmptyList ==
    List(<<>>)

EmptyStr ==
    Str(<<>>)

EmptyDict ==
    Dict(<<>>)

----------------------------------------------------------------------------
(* Host analysis records                                                   *)

\* "Technology"
t_Technology ==
    <<"T", "e", "c", "h", "n", "o", "l", "o", "g", "y">>

\* "Entrepreneurship"
t_Entrepreneurship ==
    <<"E", "n", "t", "r", "e", "p", "r", "e", "n", "e", "u", "r", "s", "h",
      "i", "p">>

\* "Science"
t_Science ==
    <<"S", "c", "i", "e", "n", "c", "e">>

\* "Technical depth"
d_TechnicalDepth ==
    <<"T", "e", "c", "h", "n", "i", "c", "a", "l", " ", "d", "e", "p", "t",
      "h">>

\* "Practical insights"
d_PracticalInsights ==
    <<"P", "r", "a", "c", "t", "i", "c", "a", "l", " ", "i", "n", "s", "i",
      "g", "h", "t", "s">>

\* "Thought leadership"
d_ThoughtLeadership ==
    <<"T", "h", "o", "u", "g", "h", "t", " ", "l", "e", "a", "d", "e", "r",
      "s", "h", "i", "p">>

\* "AI and the Future of Technology with Dr. Smith"
v_Title1 ==
    <<"A", "I", " ", "a", "n", "d", " ", "t", "h", "e", " ", "F", "u", "t",
      "u", "r", "e", " ", "o", "f", " ", "T", "e", "c", "h", "n", "o", "l",
      "o", "g", "y", " ", "w", "i", "t", "h", " ", "D", "r", ".", " ", "S",
      "m", "i", "t", "h">>

\* "Building Successful Startups with Jane Doe"
v_Title2 ==
    <<"B", "u", "i", "l", "d", "i", "n", "g", " ", "S", "u", "c", "c", "e",
      "s", "s", "f", "u", "l", " ", "S", "t", "a", "r", "t", "u", "p", "s",
      " ", "w", "i", "t", "h", " ", "J", "a", "n", "e", " ", "D", "o", "e">>

\* "The Science of Learning with Prof. Johnson"
v_Title3 ==
    <<"T", "h", "e", " ", "S", "c", "i", "e", "n", "c", "e", " ", "o", "f",
      " ", "L", "e", "a", "r", "n", "i", "n", "g", " ", "w", "i", "t", "h",
      " ", "P", "r", "o", "f", ".", " ", "J", "o", "h", "n", "s", "o", "n">>

\* "Tech-savvy professionals and entrepreneurs interested in innovation and cutting-edge ideas"
a_AudienceProfile ==
    <<"T", "e", "c", "h", "-", "s", "a", "v", "v", "y", " ", "p", "r", "o",
      "f", "e", "s", "s", "i", "o", "n", "a", "l", "s", " ", "a", "n", "d",
      " ", "e", "n", "t", "r", "e", "p", "r", "e", "n", "e", "u", "r", "s",
      " ", "i", "n", "t", "e", "r", "e", "s", "t", "e", "d", " ", "i", "n",
      " ", "i", "n", "n", "o", "v", "a", "t", "i", "o", "n", " ", "a", "n",
      "d", " ", "c", "u", "t", "t", "i", "n", "g", "-", "e", "d", "g", "e",
      " ", "i", "d", "e", "a", "s">>

\* "unknown"
s_unknown ==
    <<"u", "n", "k", "n", "o", "w", "n">>

\* "Unable to determine"
s_UnableToDetermine ==
    <<"U", "n", "a", "b", "l", "e", " ", "t", "o", " ", "d", "e", "t", "e",
      "r", "m", "i", "n", "e">>

\* "500+"
s_500plus ==
    <<"5", "0", "0", "+">>

\* "twitter"
s_twitter ==
    <<"t", "w", "i", "t", "t", "e", "r">>

\* "linkedin"
s_linkedin ==
    <<"l", "i", "n", "k", "e", "d", "i", "n">>

AuthorityTerms ==
    << <<"f", "o", "u", "n", "d", "e", "r">>,
       <<"c", "e", "o">>,
       <<"a", "u", "t", "h", "o", "r">>,
       <<"e", "x", "p", "e", "r", "t">>,
       <<"a", "w", "a", "r", "d">>,
       <<"p", "r", "o", "f", "e", "s", "s", "o", "r">>,
       <<"p", "h", "d">>,
       <<"l", "e", "a", "d", "e", "r">> >>

TimelyTerms ==
    << <<"r", "e", "c", "e", "n", "t">>,
       <<"n", "e", "w">>,
       <<"l", "a", "u", "n", "c", "h">>,
       <<"a", "n", "n", "o", "u", "n", "c", "e">>,
       <<"p", "u", "b", "l", "i", "s", "h">>,
       <<"r", "e", "l", "e", "a", "s", "e">> >>


\* the record host_channel_analyzer_mock.py returns (the fields the
\* tracker and the scorer read)
MockHostData ==
    [ videos_analyzed |-> 3,
      average_views |-> 210000,
      primary_topics |-> <<t_Technology, t_Entrepreneurship, t_Science>>,
      audience_profile |-> a_AudienceProfile,
      engagement_drivers |->
          <<d_TechnicalDepth, d_PracticalInsights, d_ThoughtLeadership>>,
      raw_video_data |-> <<v_Title1, v_Title2, v_Title3>> ]

\* {"error": str(e)}: every .get() of the scorer falls to its default
ErrorHostData ==
    [ videos_analyzed |-> 0,
      average_views |-> 0,
      primary_topics |-> <<>>,
      audience_profile |-> <<>>,
      engagement_drivers |-> <<>>,
      raw_video_data |-> <<>> ]

\* A host analysis held by the program: `id` is the identity of the dict
\* object (the invocation that built it), `error` whether it is the
\* {"error": ...} record, `analysis_timestamp` the clock when it was built.
HostData(ha) ==
    IF ha.error THEN ErrorHostData ELSE MockHostData

----------------------------------------------------------------------------
(* GuestRelevanceScorer                                                    *)

\* n hundredths, in units of 1/Scale
Pct(n) ==
    n * (Scale \div 100)

\* weights that add up to more than 1
DefaultWeightsHeavy ==
    [ topic_alignment |-> 45,
      authority_score |-> 25,
      audience_appeal |-> 20,
      uniqueness_factor |-> 10,
      engagement_potential |-> 10 ]

\* self.weights as set by __init__, in percent
DefaultWeights ==
    [ topic_alignment |-> 35,
      authority_score |-> 25,
      audience_appeal |-> 20,
      uniqueness_factor |-> 10,
      engagement_potential |-> 10 ]

\* the words longer than 3 characters of the lowercased items
Keywords(items) ==
    { w \in UNION { Range(Split(Lower(items[i]))) : i \in DOMAIN items } :
        Len(w) > 3 }

\* `guest_expertise + guest_topics` raises TypeError for a str and a list
ConcatRaises(x, y) ==
    x.t # y.t

Concat(x, y) ==
    [t |-> x.t, v |-> x.v \o y.v]

TopicAlignmentRaises(guest_profile, host) ==
    LET guest_expertise == Get(guest_profile, "expertise_areas", EmptyList)
        guest_topics == Get(guest_profile, "key_topics", EmptyList)
    IN  /\ Truthy(guest_expertise)
        /\ host.primary_topics # <<>>
        /\ ConcatRaises(guest_expertise, guest_topics)

\* no overlap at all treated as missing data
calculate_topic_alignment_neutral(guest_profile, host) ==
    LET guest_expertise == Get(guest_profile, "expertise_areas", EmptyList)
        guest_topics == Get(guest_profile, "key_topics", EmptyList)
        channel_topics == host.primary_topics
        guest_keywords == Keywords(Items(Concat(guest_expertise, guest_topics)))
        channel_keywords == Keywords(channel_topics)
        matches ==
            Cardinality({ k \in guest_keywords :
                \E c \in channel_keywords : IsSubstr(k, c) \/ IsSubstr(c, k) })
        alignment_score ==
            Min(Scale, (matches * Scale) \div Max(1, Cardinality(channel_keywords)))
        expertise == Items(guest_expertise)
        direct ==
            Cardinality({ p \in (DOMAIN expertise) \X (DOMAIN channel_topics) :
                \/ IsSubstr(Lower(expertise[p[1]]), Lower(channel_topics[p[2]]))
                \/ IsSubstr(Lower(channel_topics[p[2]]), Lower(expertise[p[1]])) })
    IN  IF ~Truthy(guest_expertise) \/ channel_topics = <<>>
        THEN Pct(50)
        ELSE IF channel_keywords = {}
        THEN Pct(50)
        ELSE IF matches = 0 /\ direct = 0
        THEN Pct(50)
        ELSE Min(Scale, alignment_score + direct * Pct(20))

\* missing data scored 0 instead of the neutral 0.5
calculate_topic_alignment_zero_default(guest_profile, host) ==
    LET guest_expertise == Get(guest_profile, "expertise_areas", EmptyList)
        guest_topics == Get(guest_profile, "key_topics", EmptyList)
        channel_topics == host.primary_topics
        guest_keywords == Keywords(Items(Concat(guest_expertise, guest_topics)))
        channel_keywords == Keywords(channel_topics)
        matches ==
            Cardinality({ k \in guest_keywords :
                \E c \in channel_keywords : IsSubstr(k, c) \/ IsSubstr(c, k) })
        alignment_score ==
            Min(Scale, (matches * Scale) \div Max(1, Cardinality(channel_keywords)))
        expertise == Items(guest_expertise)
        direct ==
            Cardinality({ p \in (DOMAIN expertise) \X (DOMAIN channel_topics) :
                \/ IsSubstr(Lower(expertise[p[1]]), Lower(channel_topics[p[2]]))
                \/ IsSubstr(Lower(channel_topics[p[2]]), Lower(expertise[p[1]])) })
    IN  IF ~Truthy(guest_expertise) \/ channel_topics = <<>>
        THEN 0
        ELSE IF channel_keywords = {}
        THEN Pct(50)
        ELSE Min(Scale, alignment_score + direct * Pct(20))

calculate_topic_alignment(guest_profile, host) ==
    LET guest_expertise == Get(guest_profile, "expertise_areas", EmptyList)
        guest_topics == Get(guest_profile, "key_topics", EmptyList)
        channel_topics == host.primary_topics
        guest_keywords == Keywords(Items(Concat(guest_expertise, guest_topics)))
        channel_keywords == Keywords(channel_topics)
        matches ==
            Cardinality({ k \in guest_keywords :
                \E c \in channel_keywords : IsSubstr(k, c) \/ IsSubstr(c, k) })
        alignment_score ==
            Min(Scale, (matches * Scale) \div Max(1, Cardinality(channel_keywords)))
        expertise == Items(guest_expertise)
        direct ==
            Cardinality({ p \in (DOMAIN expertise) \X (DOMAIN channel_topics) :
                \/ IsSubstr(Lower(expertise[p[1]]), Lower(channel_topics[p[2]]))
                \/ IsSubstr(Lower(channel_topics[p[2]]), Lower(expertise[p[1]])) })
    IN  IF ~Truthy(guest_expertise) \/ channel_topics = <<>>
        THEN Pct(50)
        ELSE IF channel_keywords = {}
        THEN Pct(50)
        ELSE Min(Scale, alignment_score + direct * Pct(20))

\* float(text) of the follower count: digits with at most one point
ParseFloat(s) ==
    LET points == { i \in 1..Len(s) : s[i] = "." }
        digits == RemoveChar(s, ".")
        ok == /\ Cardinality(points) <= 1
              /\ digits # <<>>
              /\ \A i \in 1..Len(digits) : IsDigit(digits[i])
        frac == IF points = {} THEN 0 ELSE Len(s) - (CHOOSE i \in points : TRUE)
    IN  [ ok |-> ok,
          num |-> IF ok THEN DigitsValue(digits) ELSE 0,
          den |-> IF frac = 0 THEN 1 ELSE IF frac = 1 THEN 10 ELSE 100 ]

\* more than a million followers worth 0.3 instead of 0.2
TwitterBonusGenerous(twitter_followers) ==
    LET low == Lower(twitter_followers)
        parsed ==
            IF "k" \in Range(low) THEN ParseFloat(RemoveChar(low, "k"))
            ELSE IF "m" \in Range(low) THEN ParseFloat(RemoveChar(low, "m"))
            ELSE ParseFloat(RemoveChar(twitter_followers, ","))
        mult ==
            IF "k" \in Range(low) THEN 1000
            ELSE IF "m" \in Range(low) THEN 1000000
            ELSE 1
        followers == parsed.num * mult
    IN  IF ~parsed.ok THEN 0
        ELSE IF followers > 1000000 * parsed.den THEN Pct(30)
        ELSE IF followers > 100000 * parsed.den THEN Pct(15)
        ELSE IF followers > 10000 * parsed.den THEN Pct(10)
        ELSE IF followers > 1000 * parsed.den THEN Pct(5)
        ELSE 0

\* the follower-count bonus of calculate_authority_score, lines 196-218;
\* an unparsable count raises inside the try and adds nothing
TwitterBonus(twitter_followers) ==
    LET low == Lower(twitter_followers)
        parsed ==
            IF "k" \in Range(low) THEN ParseFloat(RemoveChar(low, "k"))
            ELSE IF "m" \in Range(low) THEN ParseFloat(RemoveChar(low, "m"))
            ELSE ParseFloat(RemoveChar(twitter_followers, ","))
        mult ==
            IF "k" \in Range(low) THEN 1000
            ELSE IF "m" \in Range(low) THEN 1000000
            ELSE 1
        followers == parsed.num * mult
    IN  IF ~parsed.ok THEN 0
        ELSE IF followers > 1000000 * parsed.den THEN Pct(20)
        ELSE IF followers > 100000 * parsed.den THEN Pct(15)
        ELSE IF followers > 10000 * parsed.den THEN Pct(10)
        ELSE IF followers > 1000 * parsed.den THEN Pct(5)
        ELSE 0

\* `social_following.get(...)` / `.items()` on a non-empty str or list
SocialFollowingRaises(guest_profile) ==
    LET social_following == Get(guest_profile, "social_following", EmptyDict)
    IN  Truthy(social_following) /\ social_following.t # "dict"

\* lines 225-228 and 367-371: the bonus for previous podcasts
PodcastBonus(guest_profile) ==
    LET previous_podcasts == Get(guest_profile, "previous_podcasts", EmptyList)
    IN  IF /\ Truthy(previous_podcasts)
           /\ Items(previous_podcasts)[1] # s_UnableToDetermine
        THEN Min(Pct(10), PyLen(previous_podcasts) * Pct(2))
        ELSE 0

calculate_authority_score(guest_profile, host) ==
    LET authority_indicators ==
            Get(guest_profile, "authority_indicators", EmptyList)
        social_following == Get(guest_profile, "social_following", EmptyDict)
        indicators == Items(authority_indicators)
        strong_indicators ==
            Cardinality({ i \in DOMAIN indicators :
                \E t \in Range(AuthorityTerms) :
                    IsSubstr(t, Lower(indicators[i])) })
        from_indicators ==
            IF Truthy(authority_indicators)
            THEN Min(Pct(30), strong_indicators * Pct(10))
            ELSE 0
        twitter_followers == Get(social_following.v, s_twitter, Str(s_unknown))
        linkedin == Get(social_following.v, s_linkedin, Str(s_unknown))
        from_social ==
            IF Truthy(social_following)
            THEN (IF twitter_followers.v # s_unknown
                  THEN TwitterBonus(twitter_followers.v)
                  ELSE 0)
                 + (IF linkedin.v # s_unknown /\ IsSubstr(s_500plus, linkedin.v)
                    THEN Pct(5)
                    ELSE 0)
            ELSE 0
    IN  Min(Scale,
            Pct(50) + from_indicators + from_social + PodcastBonus(guest_profile))

calculate_audience_appeal(guest_profile, host) ==
    LET audience_profile == host.audience_profile
        guest_industry == Get(guest_profile, "industry", EmptyStr).v
        guest_bio == Get(guest_profile, "bio_summary", EmptyStr).v
        social_following == Get(guest_profile, "social_following", EmptyDict)
        platforms_with_following ==
            Cardinality({ k \in DOMAIN social_following.v :
                /\ social_following.v[k].v # <<>>
                /\ social_following.v[k].v # s_unknown })
        from_social ==
            IF Truthy(social_following)
            THEN Min(Pct(20), platforms_with_following * Pct(5))
            ELSE 0
        popularity_indicators ==
            Get(guest_profile, "popularity_indicators", EmptyList)
        from_popularity ==
            IF Truthy(popularity_indicators)
            THEN Min(Pct(20), PyLen(popularity_indicators) * Pct(5))
            ELSE 0
        audience_keywords == Split(Lower(audience_profile))
        guest_text == Lower(guest_industry \o <<" ">> \o guest_bio)
        matches ==
            Cardinality({ i \in DOMAIN audience_keywords :
                /\ Len(audience_keywords[i]) > 3
                /\ IsSubstr(audience_keywords[i], guest_text) })
        from_audience ==
            IF audience_profile # <<>> /\ (guest_industry # <<>> \/ guest_bio # <<>>)
            THEN Min(Pct(20), matches * Pct(4))
            ELSE 0
    IN  Min(Scale, Pct(60) + from_social + from_popularity + from_audience)

\* the title loop of calculate_uniqueness_factor, lines 298-311: scans the
\* titles in order and stops at the first one that holds the guest's name
RECURSIVE ScanTitles(_, _, _, _, _)
ScanTitles(titles, i, guest_name, guest_expertise, similar_topics_count) ==
    IF i > Len(titles)
    THEN [guest_appeared |-> FALSE, similar_topics_count |-> similar_topics_count]
    ELSE IF IsSubstr(guest_name, Lower(titles[i]))
    THEN [guest_appeared |-> TRUE, similar_topics_count |-> similar_topics_count]
    ELSE ScanTitles(titles, i + 1, guest_name, guest_expertise,
             IF \E e \in DOMAIN guest_expertise :
                    IsSubstr(guest_expertise[e], Lower(titles[i]))
             THEN similar_topics_count + 1
             ELSE similar_topics_count)

\* the plain sum: the topic penalty not capped, the result not clamped
calculate_uniqueness_unclamped(guest_profile, host) ==
    LET recent_videos == host.raw_video_data
        guest_name == Lower(Get(guest_profile, "name", EmptyStr).v)
        areas == Items(Get(guest_profile, "expertise_areas", EmptyList))
        guest_expertise == [i \in DOMAIN areas |-> Lower(areas[i])]
        scan == ScanTitles(recent_videos, 1, guest_name, guest_expertise, 0)
        repeat_penalty == IF scan.guest_appeared THEN Pct(30) ELSE 0
        topic_penalty == scan.similar_topics_count * Pct(5)
        primary_topics == host.primary_topics
        guest_industry == Lower(Get(guest_profile, "industry", EmptyStr).v)
        industry_bonus ==
            IF /\ guest_industry # <<>>
               /\ ~\E t \in DOMAIN primary_topics :
                      IsSubstr(guest_industry, Lower(primary_topics[t]))
            THEN Pct(10)
            ELSE 0
    IN  Pct(70) - repeat_penalty - topic_penalty + industry_bonus

calculate_uniqueness_factor(guest_profile, host) ==
    LET recent_videos == host.raw_video_data
        guest_name == Lower(Get(guest_profile, "name", EmptyStr).v)
        areas == Items(Get(guest_profile, "expertise_areas", EmptyList))
        guest_expertise == [i \in DOMAIN areas |-> Lower(areas[i])]
        scan == ScanTitles(recent_videos, 1, guest_name, guest_expertise, 0)
        repeat_penalty == IF scan.guest_appeared THEN Pct(30) ELSE 0
        topic_penalty ==
            IF scan.similar_topics_count > 0
            THEN Min(Pct(30), scan.similar_topics_count * Pct(5))
            ELSE 0
        primary_topics == host.primary_topics
        guest_industry == Lower(Get(guest_profile, "industry", EmptyStr).v)
        industry_bonus ==
            IF /\ guest_industry # <<>>
               /\ ~\E t \in DOMAIN primary_topics :
                      IsSubstr(guest_industry, Lower(primary_topics[t]))
            THEN Pct(10)
            ELSE 0
    IN  Max(Pct(10),
            Min(Scale, Pct(70) - repeat_penalty - topic_penalty + industry_bonus))

calculate_engagement_potential(guest_profile, host) ==
    LET engagement_drivers == host.engagement_drivers
        guest_topics == Get(guest_profile, "key_topics", EmptyList)
        guest_activities == Items(Get(guest_profile, "recent_activities", EmptyList))
        timely_topics ==
            Cardinality({ i \in DOMAIN guest_activities :
                \E t \in Range(TimelyTerms) :
                    IsSubstr(t, Lower(guest_activities[i])) })
        topics == Items(guest_topics)
        matches ==
            Cardinality({ d \in DOMAIN engagement_drivers :
                \E t \in DOMAIN topics :
                    \/ IsSubstr(Lower(engagement_drivers[d]), Lower(topics[t]))
                    \/ IsSubstr(Lower(topics[t]), Lower(engagement_drivers[d])) })
        from_drivers ==
            IF engagement_drivers # <<>> /\ Truthy(guest_topics)
            THEN Min(Pct(30), matches * Pct(10))
            ELSE 0
    IN  Min(Scale,
            Pct(50) + Min(Pct(20), timely_topics * Pct(5)) + from_drivers
                + PodcastBonus(guest_profile))

\* round(num / den) for num >= 0: Python rounds halves to the even integer
\* (the code rounds a binary floating-point sum, which can fall on either
\* side of an exact half; no profile of this model scores an exact half)
RoundHalfEven(num, den) ==
    LET q == num \div den
        r == num % den
    IN  IF 2 * r < den THEN q
        ELSE IF 2 * r > den THEN q + 1
        ELSE IF q % 2 = 0 THEN q
        ELSE q + 1

\* the two middle tiers exchanged
determine_recommendation_swapped(overall_score) ==
    IF overall_score >= 85 THEN "HIGHLY_RECOMMENDED"
    ELSE IF overall_score >= 70 THEN "RECOMMENDED"
    ELSE IF overall_score >= 55 THEN "LOW_PRIORITY"
    ELSE IF overall_score >= 40 THEN "CONSIDER"
    ELSE "NOT_RECOMMENDED"

\* the boundary values left to the lower band
determine_recommendation_strict(overall_score) ==
    IF overall_score > 85 THEN "HIGHLY_RECOMMENDED"
    ELSE IF overall_score > 70 THEN "RECOMMENDED"
    ELSE IF overall_score > 55 THEN "CONSIDER"
    ELSE IF overall_score > 40 THEN "LOW_PRIORITY"
    ELSE "NOT_RECOMMENDED"

determine_recommendation(overall_score) ==
    IF overall_score >= 85 THEN "HIGHLY_RECOMMENDED"
    ELSE IF overall_score >= 70 THEN "RECOMMENDED"
    ELSE IF overall_score >= 55 THEN "CONSIDER"
    ELSE IF overall_score >= 40 THEN "LOW_PRIORITY"
    ELSE "NOT_RECOMMENDED"

\* the factors in the order the dict literal lists them (lines 54-60)
Factors ==
    << "topic_alignment", "authority_score", "audience_appeal",
       "uniqueness_factor", "engagement_potential" >>

StrongStrength ==
    [ topic_alignment |-> "Strong alignment with channel topics",
      authority_score |-> "High authority/credibility in their field",
      audience_appeal |-> "Strong potential audience appeal",
      uniqueness_factor |-> "Brings fresh perspective to the channel",
      engagement_potential |-> "High potential for audience engagement" ]

SofterStrength ==
    [ topic_alignment |-> "Good alignment with channel topics",
      authority_score |-> "Solid credentials in their field",
      audience_appeal |-> "Appealing to channel audience",
      uniqueness_factor |-> "Relatively fresh perspective",
      engagement_potential |-> "Good potential for engagement" ]

Concern ==
    [ topic_alignment |-> "Limited alignment with channel topics",
      authority_score |-> "Limited authority/credibility in relevant fields",
      audience_appeal |-> "May not appeal to channel audience",
      uniqueness_factor |-> "Similar to previous guests/content",
      engagement_potential |-> "Limited potential for audience engagement" ]

\* the labels of the factors in `passing`, in the order of Factors
RECURSIVE Pick(_, _, _)
Pick(label, passing, i) ==
    IF i > Len(Factors) THEN <<>>
    ELSE (IF Factors[i] \in passing THEN <<label[Factors[i]]>> ELSE <<>>)
         \o Pick(label, passing, i + 1)

\* the softer strings added next to the strong ones
identify_key_strengths_mixed(scores) ==
    Pick(StrongStrength, { f \in DOMAIN scores : scores[f] >= Pct(80) }, 1)
    \o Pick(SofterStrength,
            { f \in DOMAIN scores : scores[f] >= Pct(70) /\ scores[f] < Pct(80) }, 1)

identify_key_strengths(scores) ==
    LET strengths ==
            Pick(StrongStrength, { f \in DOMAIN scores : scores[f] >= Pct(80) }, 1)
    IN  IF strengths # <<>>
        THEN strengths
        ELSE Pick(SofterStrength, { f \in DOMAIN scores : scores[f] >= Pct(70) }, 1)

\* a concern for every sub-score up to 50
identify_areas_of_concern_wide(scores) ==
    Pick(Concern, { f \in DOMAIN scores : scores[f] <= Pct(50) }, 1)

identify_areas_of_concern(scores) ==
    Pick(Concern, { f \in DOMAIN scores : scores[f] <= Pct(40) }, 1)

\* x[:n] of a str or list
Prefix(x, n) ==
    [t |-> x.t, v |-> SubSeq(x.v, 1, Min(n, Len(x.v)))]

\* line 505: `guest_profile.get('previous_podcasts', ['Unknown'])[0]` raises
\* IndexError when the field is present and empty
InterviewRecommendationsRaises(guest_profile) ==
    /\ Has(guest_profile, "previous_podcasts")
    /\ PyLen(guest_profile["previous_podcasts"]) = 0

generate_interview_recommendations(guest_profile, host, overall_score) ==
    LET guest_topics == Get(guest_profile, "potential_interview_topics", EmptyList)
        guest_expertise == Get(guest_profile, "expertise_areas", EmptyList)
        channel_topics == host.primary_topics
        estimated_engagement ==
            IF overall_score >= 80 THEN "HIGH"
            ELSE IF overall_score >= 60 THEN "MEDIUM"
            ELSE "LOW"
        first_two == Items(Prefix(guest_topics, 2))
        aligned ==
            SelectSeq(first_two, LAMBDA topic :
                \E c \in DOMAIN channel_topics :
                    \/ IsSubstr(Lower(topic), Lower(channel_topics[c]))
                    \/ IsSubstr(Lower(channel_topics[c]), Lower(topic)))
        focus_notes ==
            IF Truthy(guest_topics) /\ channel_topics # <<>>
            THEN [i \in DOMAIN aligned |->
                     [text |-> "Focus on {topic} which aligns with channel interests",
                      topic |-> aligned[i]]]
            ELSE <<>>
        narrow ==
            Concern.topic_alignment \in Range(identify_areas_of_concern(
                [ topic_alignment |-> calculate_topic_alignment(guest_profile, host),
                  authority_score |-> Pct(50),
                  audience_appeal |-> Pct(50),
                  uniqueness_factor |-> Pct(50),
                  engagement_potential |-> Pct(50) ]))
        by_score ==
            IF overall_score >= 70
            THEN << [text |-> "Research guest's recent work and publications",
                     topic |-> <<>>] >> \o focus_notes
            ELSE << [text |-> "Carefully prepare to bridge guest expertise with channel topics",
                     topic |-> <<>>] >>
                 \o (IF narrow
                     THEN << [text |-> "Consider narrowing interview focus to most relevant topics",
                              topic |-> <<>>] >>
                     ELSE <<>>)
        limited ==
            IF Items(Get(guest_profile, "previous_podcasts",
                         List(<< <<"U", "n", "k", "n", "o", "w", "n">> >>)))[1]
                   = s_UnableToDetermine
            THEN << [text |-> "Guest may have limited podcast experience - prepare accordingly",
                     topic |-> <<>>] >>
            ELSE <<>>
    IN  [ estimated_audience_engagement |-> estimated_engagement,
          preparation_notes |-> by_score \o limited,
          focus_topics |->
              IF Truthy(guest_topics)
              THEN Prefix(guest_topics, 3)
              ELSE Prefix(guest_expertise, 3) ]

EmptyMetadata ==
    [t |-> "meta", data_quality_score |-> 0, confidence_score |-> 0]

\* the host's sample size left out of the decision
determine_confidence_level_guest_only(guest_profile, host) ==
    LET metadata == Get(guest_profile, "extraction_metadata", EmptyMetadata)
        data_quality == metadata.data_quality_score
        confidence_score == metadata.confidence_score
    IN  IF data_quality >= 70 /\ confidence_score >= 70
        THEN "HIGH"
        ELSE IF data_quality >= 50 /\ confidence_score >= 50
        THEN "MEDIUM"
        ELSE "LOW"

determine_confidence_level(guest_profile, host) ==
    LET metadata == Get(guest_profile, "extraction_metadata", EmptyMetadata)
        data_quality == metadata.data_quality_score
        confidence_score == metadata.confidence_score
        host_videos_analyzed == host.videos_analyzed
    IN  IF data_quality >= 70 /\ confidence_score >= 70 /\ host_videos_analyzed >= 20
        THEN "HIGH"
        ELSE IF data_quality >= 50 /\ confidence_score >= 50
                /\ host_videos_analyzed >= 10
        THEN "MEDIUM"
        ELSE "LOW"

\* the inputs on which calculate_overall_relevance_score raises
ScoringRaises(guest_profile, host) ==
    \/ TopicAlignmentRaises(guest_profile, host)
    \/ SocialFollowingRaises(guest_profile)
    \/ InterviewRecommendationsRaises(guest_profile)

\* str(e) of what it raises: the factors are computed in the order topic
\* alignment, authority, ..., and the interview recommendations come last
ScoringError(guest_profile, host) ==
    IF TopicAlignmentRaises(guest_profile, host)
    THEN IF Get(guest_profile, "expertise_areas", EmptyList).t = "str"
         THEN "can only concatenate str (not \"list\") to str"
         ELSE "can only concatenate list (not \"str\") to list"
    ELSE IF SocialFollowingRaises(guest_profile)
    THEN IF guest_profile["social_following"].t = "str"
         THEN "'str' object has no attribute 'get'"
         ELSE "'list' object has no attribute 'get'"
    ELSE "list index out of range"

\* lines 38-48: round((sum of sub-score * weight) * 100); a weight of w
\* percent stands for w / 100
weighted_overall_score(scores, w) ==
    LET weighted ==
            scores.topic_alignment * w.topic_alignment
            + scores.authority_score * w.authority_score
            + scores.audience_appeal * w.audience_appeal
            + scores.uniqueness_factor * w.uniqueness_factor
            + scores.engagement_potential * w.engagement_potential
    IN  RoundHalfEven(weighted, Scale)

\* calculate_overall_relevance_score with the scorer's weights `w` and the
\* clock reading `t` that datetime.now() returns
calculate_overall_relevance_score(guest_profile, host, w, t) ==
    LET scores ==
            [ topic_alignment |-> calculate_topic_alignment(guest_profile, host),
              authority_score |-> calculate_authority_score(guest_profile, host),
              audience_appeal |-> calculate_audience_appeal(guest_profile, host),
              uniqueness_factor |-> calculate_uniqueness_factor(guest_profile, host),
              engagement_potential |->
                  calculate_engagement_potential(guest_profile, host) ]
        overall_score == weighted_overall_score(scores, w)
    IN  [ guest_name |->
              Get(guest_profile, "name",
                  Str(<<"U", "n", "k", "n", "o", "w", "n", " ", "G", "u", "e", "s", "t">>)).v,
          overall_relevance_score |-> overall_score,
          recommendation |-> determine_recommendation(overall_score),
          confidence_level |-> determine_confidence_level(guest_profile, host),
          score_breakdown |->
              [f \in Range(Factors) |->
                  [score |-> RoundHalfEven(scores[f] * 100, Scale), weight |-> w[f]]],
          key_strengths |-> identify_key_strengths(scores),
          areas_of_concern |-> identify_areas_of_concern(scores),
          interview_recommendations |->
              generate_interview_recommendations(guest_profile, host, overall_score),
          analysis_timestamp |-> t ]

----------------------------------------------------------------------------
(* Narration: OllamaClient.generate_text and the scorer's validation call  *)

None ==
    [t |-> "none"]

\* What requests.post / raise_for_status / response.json() can do: answer
\* with a "response" text (possibly empty or blank) or with none (null), or
\* raise (transport error, timeout, HTTP error status) with message str(e).
LLMOutcomes ==
    { [ok |-> TRUE,  response |-> Str(<<"G", "o", "o", "d", " ", "f", "i", "t", ".">>)],
      [ok |-> TRUE,  response |-> Str(<<>>)],
      [ok |-> TRUE,  response |-> Str(<<" ">>)],
      [ok |-> TRUE,  response |-> None],
      [ok |-> FALSE, response |-> Str(<<"t", "i", "m", "e", "d", " ", "o", "u", "t">>)] }

\* OllamaClient.generate_text: the "generated_text" of the dict it returns;
\* on a raised exception `response` holds str(e)
generate_text(outcome) ==
    IF outcome.ok
    THEN outcome.response
    ELSE Str(<<"E", "r", "r", "o", "r", ":", " ">> \o outcome.response.v)

\* the low tiers cite the last concern of the list
generate_fallback_validation_last_concern(relevance_analysis) ==
    LET score == relevance_analysis.overall_relevance_score
        recommendation == relevance_analysis.recommendation
        strengths == relevance_analysis.key_strengths
        concerns == relevance_analysis.areas_of_concern
        text(template, strength, concern) ==
            [ t |-> "fallback", template |-> template, score |-> score,
              recommendation |-> recommendation,
              strength |-> strength, concern |-> concern ]
    IN  IF recommendation \in {"HIGHLY_RECOMMENDED", "RECOMMENDED"}
        THEN IF strengths # <<>>
             THEN text("recommended, key strength", strengths[1], "")
             ELSE text("recommended", "", "")
        ELSE IF recommendation = "CONSIDER"
        THEN IF strengths # <<>> /\ concerns # <<>>
             THEN text("consider, strength and concern", strengths[1], concerns[1])
             ELSE text("consider", "", "")
        ELSE IF concerns # <<>>
             THEN text("low, primary concern", "", concerns[Len(concerns)])
             ELSE text("low", "", "")

\* The templated text, kept as the template chosen and the values
\* formatted into it; the strength and the concern are cited lowercased.
generate_fallback_validation(relevance_analysis) ==
    LET score == relevance_analysis.overall_relevance_score
        recommendation == relevance_analysis.recommendation
        strengths == relevance_analysis.key_strengths
        concerns == relevance_analysis.areas_of_concern
        text(template, strength, concern) ==
            [ t |-> "fallback", template |-> template, score |-> score,
              recommendation |-> recommendation,
              strength |-> strength, concern |-> concern ]
    IN  IF recommendation \in {"HIGHLY_RECOMMENDED", "RECOMMENDED"}
        THEN IF strengths # <<>>
             THEN text("recommended, key strength", strengths[1], "")
             ELSE text("recommended", "", "")
        ELSE IF recommendation = "CONSIDER"
        THEN IF strengths # <<>> /\ concerns # <<>>
             THEN text("consider, strength and concern", strengths[1], concerns[1])
             ELSE text("consider", "", "")
        ELSE IF concerns # <<>>
             THEN text("low, primary concern", "", concerns[1])
             ELSE text("low", "", "")

\* the generated text returned as it is, whatever it is
call_llm_unchecked(relevance_analysis, outcome) ==
    LET generated == generate_text(outcome)
    IN  IF generated.t # "str"
        THEN generate_fallback_validation(relevance_analysis)
        ELSE Str(Strip(generated.v))

\* call_llm_for_scoring_validation, given what the request did; .strip()
\* on a value that is no str raises, which the except clause catches
call_llm_for_scoring_validation(relevance_analysis, outcome) ==
    LET generated == generate_text(outcome)
    IN  IF generated.t # "str"
        THEN generate_fallback_validation(relevance_analysis)
        ELSE IF Strip(generated.v) # <<>>
        THEN Str(Strip(generated.v))
        ELSE generate_fallback_validation(relevance_analysis)

----------------------------------------------------------------------------
(* Guest analysis: the inputs and what the external collaborators return   *)

Channels ==
    {"https://youtube.com/@lexfridman", "https://youtube.com/@hubermanlab"}

\* guest urls: a profile url, and a value that is no str (urlparse raises)
GoodUrl ==
    "https://twitter.com/jane_doe"

BadUrl ==
    "5 (not a str)"

GuestNames ==
    {"Jane Doe", ""}

\* PremiumGuestAnalyzer.extract_enhanced_person_name on the urls above
extract_enhanced_person_name(url) ==
    IF url = GoodUrl THEN "Jane Doe" ELSE "Unknown Person"

\* comprehensive_person_analysis raises on a url that is no str
GuestAnalysisRaises(guest_url) ==
    guest_url = BadUrl

\* str(e) of that exception
GuestAnalysisError(guest_url) ==
    "'int' object has no attribute 'decode'"

\* The profiles extract_structured_guest_profile can return: every value
\* the line parser stores is a non-empty str, whatever the key.
PNet ==
    [ error |-> Str(<<"c", "o", "n", "n", "e", "c", "t", "i", "o", "n", " ", "r", "e", "f", "u", "s", "e", "d">>),
      extraction_metadata |-> [t |-> "meta", data_quality_score |-> 35, confidence_score |-> 0] ]

PJane ==
    [ name |-> Str(<<"J", "a", "n", "e", " ", "D", "o", "e">>),
      designation |-> Str(<<"F", "o", "u", "n", "d", "e", "r">>),
      expertise |-> Str(<<"S", "t", "a", "r", "t", "u", "p", "s">>),
      key_topics |-> Str(<<"A", "I">>),
      previous_podcasts |-> Str(<<"N", "o">>),
      extraction_metadata |-> [t |-> "meta", data_quality_score |-> 80, confidence_score |-> 50] ]

PAda ==
    [ name |-> Str(<<"A", "d", "a">>),
      industry |-> Str(<<"R", "o", "b", "o", "t", "i", "c", "s">>),
      expertise_areas |-> Str(<<"s", "c", "i", "e", "n", "c", "e">>),
      key_topics |-> Str(<<"d", "e", "p", "t", "h">>),
      extraction_metadata |-> [t |-> "meta", data_quality_score |-> 55, confidence_score |-> 50] ]

PBob ==
    [ name |-> Str(<<"B", "o", "b">>),
      social_following |-> Str(<<"4", "5", "K">>),
      extraction_metadata |-> [t |-> "meta", data_quality_score |-> 55, confidence_score |-> 50] ]

GuestProfiles ==
    {PNet, PJane, PAda, PBob}

\* batch input records: complete, lacking 'name', lacking 'url', bad url
GuestRecords ==
    { [name |-> "Jane Doe", url |-> GoodUrl],
      [url |-> GoodUrl],
      [name |-> "Jane Doe"],
      [name |-> "Jane Doe", url |-> BadUrl] }

RECURSIVE SeqsUpTo(_, _)
SeqsUpTo(S, n) ==
    IF n = 0 THEN {<<>>}
    ELSE LET shorter == SeqsUpTo(S, n - 1)
         IN  shorter \cup { Append(s, x) : s \in shorter, x \in S }

----------------------------------------------------------------------------
(* The orchestrator: OneClickPodcastGuestTracker                           *)

\* The readings of the clock: the start, and one second before, at and
\* after the expiry of an entry cached at the start
Instants ==
    {0, TTL - 1, TTL, TTL + 1}

\* Positions at which time passes before the next reading of the clock
TickPoints ==
    {"guest", "host_store"}

\* an entry counted as fresh up to and including the age of 24 hours
IsFreshInclusive(cache_age) ==
    cache_age <= TTL

\* `cache_age < 86400`
IsFresh(cache_age) ==
    cache_age < TTL

\* a descending order that puts an element before the earlier elements of
\* the same key
RECURSIVE SortedOrderUnstable(_, _)
SortedOrderUnstable(keys, n) ==
    IF n = 0 THEN <<>>
    ELSE LET sorted == SortedOrderUnstable(keys, n - 1)
             before == Cardinality({j \in 1..Len(sorted) : keys[sorted[j]] > keys[n]})
         IN  SubSeq(sorted, 1, before) \o <<n>> \o SubSeq(sorted, before + 1, Len(sorted))

\* Indices 1..n ordered as list.sort(key=..., reverse=True) orders elements
\* with these keys: non-increasing, equal keys in their original order.
RECURSIVE SortedOrder(_, _)
SortedOrder(keys, n) ==
    IF n = 0 THEN <<>>
    ELSE LET sorted == SortedOrder(keys, n - 1)
             before == Cardinality({j \in 1..Len(sorted) : keys[sorted[j]] >= keys[n]})
         IN  SubSeq(sorted, 1, before) \o <<n>> \o SubSeq(sorted, before + 1, Len(sorted))

\* extract_key_decision_factors: up to three best factors scoring above 60,
\* then the first concern when the overall score is below 60
extract_key_decision_factors(relevance_analysis) ==
    LET keys == [i \in 1..Len(Factors) |->
                    relevance_analysis.score_breakdown[Factors[i]].score]
        sorted_factors == SortedOrder(keys, Len(Factors))
        top == SelectSeq(SubSeq(sorted_factors, 1, 3), LAMBDA i : keys[i] > 60)
        best == [k \in 1..Len(top) |->
                    [factor |-> Factors[top[k]], score |-> keys[top[k]]]]
        concerns == relevance_analysis.areas_of_concern
    IN  IF relevance_analysis.overall_relevance_score < 60 /\ concerns # <<>>
        THEN Append(best, [concern |-> concerns[1]])
        ELSE best

\* format_social_following calls .items() on any non-empty value
ReportRaises(guest_profile) ==
    LET social_following == Get(guest_profile, "social_following", EmptyDict)
    IN  Truthy(social_following) /\ social_following.t # "dict"

\* generate_comprehensive_report: the values formatted into the report text
generate_comprehensive_report(guest_profile, host_analysis, relevance_analysis, llm_validation, t) ==
    [ generated_on |-> t,
      guest_name |-> Get(guest_profile, "name",
                         Str(<<"U", "n", "k", "n", "o", "w", "n", " ", "G", "u", "e", "s", "t">>)),
      overall_score |-> relevance_analysis.overall_relevance_score,
      recommendation |-> relevance_analysis.recommendation,
      llm_validation |-> llm_validation,
      average_views |-> HostData(host_analysis).average_views,
      score_breakdown |-> relevance_analysis.score_breakdown,
      key_strengths |-> relevance_analysis.key_strengths,
      areas_of_concern |-> relevance_analysis.areas_of_concern,
      preparation_notes |->
          relevance_analysis.interview_recommendations.preparation_notes,
      confidence_level |-> relevance_analysis.confidence_level ]

\* the dict analyze_podcast_guest_complete returns from its try block
FinalResult(c, final_report, t) ==
    [ analysis_metadata |->
          [ guest_name |-> c.guest_name,
            guest_url |-> c.guest_url,
            host_channel_url |-> c.host_channel_url,
            analysis_timestamp |-> t ],
      guest_profile |-> c.guest_profile,
      host_analysis |-> c.host_analysis,
      relevance_analysis |-> c.relevance_analysis,
      llm_validation |-> c.llm_validation,
      final_report |-> final_report,
      recommendation_summary |->
          [ overall_score |-> c.relevance_analysis.overall_relevance_score,
            recommendation |-> c.relevance_analysis.recommendation,
            confidence |-> c.relevance_analysis.confidence_level,
            key_decision_factors |->
                extract_key_decision_factors(c.relevance_analysis) ] ]

\* an error record that keeps what the steps before the failure computed
ErrorResultWithPartials(c, message, t) ==
    [ error |-> message,
      guest_profile |-> c.guest_profile,
      host_analysis |-> c.host_analysis,
      analysis_metadata |->
          [ guest_name |-> c.guest_name,
            guest_url |-> c.guest_url,
            host_channel_url |-> c.host_channel_url,
            analysis_timestamp |-> t,
            status |-> "FAILED" ] ]

\* the dict its except clause returns
ErrorResult(c, message, t) ==
    [ error |-> message,
      analysis_metadata |->
          [ guest_name |-> c.guest_name,
            guest_url |-> c.guest_url,
            host_channel_url |-> c.host_channel_url,
            analysis_timestamp |-> t,
            status |-> "FAILED" ] ]

\* locals of analyze_podcast_guest_complete on entry
Entry(guest_name, guest_url, host_channel_url, use_cache) ==
    [ guest_name |-> guest_name,
      guest_url |-> guest_url,
      host_channel_url |-> host_channel_url,
      use_cache |-> use_cache,
      guest_profile |-> None,
      host_analysis |-> None,
      cache_age |-> <<>>,
      relevance_analysis |-> None,
      llm_validation |-> None ]

Log(event) ==
    events' = Append(events, event)

Init ==
    /\ now = 0
    /\ host_cache = << >>
    /\ weights = DefaultWeights
    /\ analyzer_calls = 0
    /\ ops = 0
    /\ pc = "idle"
    /\ call = [kind |-> "none"]
    /\ cur = None
    /\ batch = None
    /\ ret = None
    /\ batch_ret = None
    /\ events = << >>
    /\ tasks = << >>
    /\ running = 0
    /\ response = None

\* ---- analyze_podcast_guest_complete ----

\* A top-level single-guest call is made
StartSingle(guest_name, guest_url, host_channel_url, use_cache) ==
    /\ pc = "idle"
    /\ ops' = ops + 1
    /\ call' = [ kind |-> "single", host_channel_url |-> host_channel_url,
                 guest_list |-> << >> ]
    /\ cur' = Entry(guest_name, guest_url, host_channel_url, use_cache)
    /\ pc' = "guest"
    /\ ret' = None
    /\ batch_ret' = None
    /\ events' = << [e |-> "guest_started", i |-> 0] >>
    /\ UNCHANGED << response, tasks, running, now, host_cache, weights, analyzer_calls, batch >>

\* The name the guest steps work with: a missing name is extracted from the url
EffectiveName(c) ==
    IF c.guest_name = "" \/ c.guest_name = "Unknown"
    THEN extract_enhanced_person_name(c.guest_url)
    ELSE c.guest_name

\* the except clause drops the channel's entry from the cache
GuestStepRaisesEvicts ==
    /\ pc = "guest"
    /\ GuestAnalysisRaises(cur.guest_url)
    /\ cur' = [cur EXCEPT !.guest_name = EffectiveName(cur)]
    /\ ret' = ErrorResult(cur', GuestAnalysisError(cur.guest_url), now)
    /\ host_cache' = [key \in DOMAIN host_cache \ {cur.host_channel_url} |->
                         host_cache[key]]
    /\ pc' = "return"
    /\ UNCHANGED << response, tasks, running, now, weights, analyzer_calls,
                    ops, call, batch, batch_ret, events >>

\* Step 1 raises: the except clause returns the error record
GuestStepRaises ==
    /\ pc = "guest"
    /\ GuestAnalysisRaises(cur.guest_url)
    /\ cur' = [cur EXCEPT !.guest_name = EffectiveName(cur)]
    /\ ret' = ErrorResult(cur', GuestAnalysisError(cur.guest_url), now)
    /\ pc' = "return"
    /\ UNCHANGED << response, tasks, running, now, host_cache, weights, analyzer_calls, ops, call,
                    batch, batch_ret, events >>

\* Step 1 returns the structured profile `guest_profile`
GuestStep(guest_profile) ==
    /\ pc = "guest"
    /\ ~GuestAnalysisRaises(cur.guest_url)
    /\ cur' = [cur EXCEPT !.guest_name = EffectiveName(cur),
                          !.guest_profile = guest_profile]
    /\ pc' = "host_lookup"
    /\ UNCHANGED << response, tasks, running, now, host_cache, weights, analyzer_calls, ops, call,
                    batch, ret, batch_ret, events >>

\* Step 2, the cache check
HostLookup ==
    /\ pc = "host_lookup"
    /\ LET key == cur.host_channel_url
           found == cur.use_cache /\ key \in DOMAIN host_cache
           cache_age == now - host_cache[key].timestamp
       IN  /\ cur' = [cur EXCEPT
                         !.cache_age = IF found THEN <<cache_age>> ELSE <<>>,
                         !.host_analysis =
                             IF found /\ IsFresh(cache_age)
                             THEN host_cache[key].data
                             ELSE None]
           /\ pc' = IF cur'.host_analysis # None THEN "score" ELSE "host_analyze"
    /\ UNCHANGED << response, tasks, running, now, host_cache, weights, analyzer_calls, ops, call,
                    batch, ret, batch_ret, events >>

\* Step 2, the analyzer is invoked; it returns an analysis or an error dict
HostAnalyze(error) ==
    /\ pc = "host_analyze"
    /\ analyzer_calls' = analyzer_calls + 1
    /\ cur' = [cur EXCEPT !.host_analysis =
                              [id |-> analyzer_calls', error |-> error]]
    /\ Log([e |-> "host_analyzed"])
    /\ pc' = "host_store"
    /\ UNCHANGED << response, tasks, running, now, host_cache, weights, ops, call, batch, ret,
                    batch_ret >>

\* an entry that exists keeps its timestamp when its data is replaced
HostStoreKeepsCreatedAt ==
    /\ pc = "host_store"
    /\ host_cache' =
           IF cur.use_cache /\ ~cur.host_analysis.error
           THEN [key \in DOMAIN host_cache \cup {cur.host_channel_url} |->
                    IF key = cur.host_channel_url
                    THEN [data |-> cur.host_analysis,
                          timestamp |-> IF key \in DOMAIN host_cache
                                        THEN host_cache[key].timestamp
                                        ELSE now]
                    ELSE host_cache[key]]
           ELSE host_cache
    /\ pc' = "score"
    /\ UNCHANGED << response, tasks, running, now, weights, analyzer_calls, ops, call, cur, batch,
                    ret, batch_ret, events >>

\* Step 2, the result is cached unless it is an error dict
HostStore ==
    /\ pc = "host_store"
    /\ host_cache' =
           IF cur.use_cache /\ ~cur.host_analysis.error
           THEN [key \in DOMAIN host_cache \cup {cur.host_channel_url} |->
                    IF key = cur.host_channel_url
                    THEN [data |-> cur.host_analysis, timestamp |-> now]
                    ELSE host_cache[key]]
           ELSE host_cache
    /\ pc' = "score"
    /\ UNCHANGED << response, tasks, running, now, weights, analyzer_calls, ops, call, cur, batch,
                    ret, batch_ret, events >>

\* a scorer that shifts its weights with every call
ScoreStepShiftingWeights ==
    /\ pc = "score"
    /\ LET host == HostData(cur.host_analysis)
       IN  IF ScoringRaises(cur.guest_profile, host)
           THEN /\ ret' = ErrorResult(cur, ScoringError(cur.guest_profile, host), now)
                /\ pc' = "return"
                /\ cur' = cur
           ELSE /\ cur' = [cur EXCEPT !.relevance_analysis =
                               calculate_overall_relevance_score(
                                   cur.guest_profile, host, weights, now)]
                /\ pc' = "narrate"
                /\ ret' = ret
    /\ weights' = [weights EXCEPT
                       !.topic_alignment = weights.authority_score,
                       !.authority_score = weights.topic_alignment]
    /\ UNCHANGED << response, tasks, running, now, host_cache, analyzer_calls, ops, call, batch,
                    batch_ret, events >>

\* Step 3, scoring
ScoreStep ==
    /\ pc = "score"
    /\ LET host == HostData(cur.host_analysis)
       IN  IF ScoringRaises(cur.guest_profile, host)
           THEN /\ ret' = ErrorResult(cur, ScoringError(cur.guest_profile, host), now)
                /\ pc' = "return"
                /\ cur' = cur
           ELSE /\ cur' = [cur EXCEPT !.relevance_analysis =
                               calculate_overall_relevance_score(
                                   cur.guest_profile, host, weights, now)]
                /\ pc' = "narrate"
                /\ ret' = ret
    /\ UNCHANGED << response, tasks, running, now, host_cache, weights, analyzer_calls, ops, call,
                    batch, batch_ret, events >>

\* Step 3, narration of the score by the text-generation service
NarrateStep(outcome) ==
    /\ pc = "narrate"
    /\ cur' = [cur EXCEPT !.llm_validation =
                   call_llm_for_scoring_validation(cur.relevance_analysis, outcome)]
    /\ pc' = "report"
    /\ UNCHANGED << response, tasks, running, now, host_cache, weights, analyzer_calls, ops, call,
                    batch, ret, batch_ret, events >>

\* Step 4, the report, and the result is compiled
ReportStep ==
    /\ pc = "report"
    /\ ret' = IF ReportRaises(cur.guest_profile)
              THEN ErrorResult(cur, "'str' object has no attribute 'items'", now)
              ELSE FinalResult(cur,
                       generate_comprehensive_report(cur.guest_profile,
                           cur.host_analysis, cur.relevance_analysis,
                           cur.llm_validation, now),
                       now)
    /\ pc' = "return"
    /\ UNCHANGED << response, tasks, running, now, host_cache, weights, analyzer_calls, ops, call,
                    cur, batch, batch_ret, events >>

\* A top-level single-guest call returns
ReturnSingle ==
    /\ pc = "return"
    /\ call.kind = "single"
    /\ Log([e |-> "guest_finished", i |-> 0])
    /\ cur' = None
    /\ pc' = "idle"
    /\ UNCHANGED << response, tasks, running, now, host_cache, weights, analyzer_calls, ops, call,
                    batch, ret, batch_ret >>

\* time.time() and datetime.now() advance
Tick(t) ==
    /\ pc \in TickPoints
    /\ t > now
    /\ now' = t
    /\ UNCHANGED << response, tasks, running, host_cache, weights, analyzer_calls, ops, pc, call, cur,
                    batch, ret, batch_ret, events >>

\* ---- batch_analyze_guests ----

StartBatch(guest_list, host_channel_url) ==
    /\ pc = "idle"
    /\ ops' = ops + 1
    /\ call' = [ kind |-> "batch", host_channel_url |-> host_channel_url,
                 guest_list |-> guest_list ]
    /\ batch' = [ results |-> << >>, failed_analyses |-> << >>, i |-> 0,
                  host_analysis |-> None ]
    /\ cur' = None
    /\ pc' = "b_host"
    /\ ret' = None
    /\ batch_ret' = None
    /\ events' = << >>
    /\ UNCHANGED << response, tasks, running, now, host_cache, weights, analyzer_calls >>

\* "Analyze host channel once"
BatchHostAnalyze(error) ==
    /\ pc = "b_host"
    /\ analyzer_calls' = analyzer_calls + 1
    /\ batch' = [batch EXCEPT !.host_analysis =
                                  [id |-> analyzer_calls', error |-> error]]
    /\ Log([e |-> "host_analyzed"])
    /\ pc' = "b_store"
    /\ UNCHANGED << response, tasks, running, now, host_cache, weights, ops, call, cur, ret,
                    batch_ret >>

\* "Cache the host analysis", whatever it is
BatchHostStore ==
    /\ pc = "b_store"
    /\ host_cache' =
           [key \in DOMAIN host_cache \cup {call.host_channel_url} |->
               IF key = call.host_channel_url
               THEN [data |-> batch.host_analysis, timestamp |-> now]
               ELSE host_cache[key]]
    /\ pc' = "b_loop"
    /\ UNCHANGED << response, tasks, running, now, weights, analyzer_calls, ops, call, cur, batch,
                    ret, batch_ret, events >>

\* the KeyError leaves batch_analyze_guests: the call ends without a result
BatchGuestKeyErrorAborts ==
    /\ pc = "b_loop"
    /\ batch.i < Len(call.guest_list)
    /\ LET guest_info == call.guest_list[batch.i + 1]
       IN  ~(Has(guest_info, "name") /\ Has(guest_info, "url"))
    /\ events' = Append(events, [e |-> "guest_started", i |-> batch.i + 1])
    /\ pc' = "idle"
    /\ UNCHANGED << response, tasks, running, now, host_cache, weights, analyzer_calls, ops, call, cur,
                    batch, ret, batch_ret >>

\* guest_info['name'] or guest_info['url'] raises KeyError: the except
\* clause of the loop records the guest as failed
BatchGuestKeyError ==
    /\ pc = "b_loop"
    /\ batch.i < Len(call.guest_list)
    /\ LET guest_info == call.guest_list[batch.i + 1]
       IN  /\ ~(Has(guest_info, "name") /\ Has(guest_info, "url"))
           /\ batch' = [batch EXCEPT
                           !.i = batch.i + 1,
                           !.failed_analyses =
                               Append(batch.failed_analyses,
                                      [ guest_info |-> guest_info,
                                        error |-> IF Has(guest_info, "name")
                                                  THEN "'url'" ELSE "'name'" ])]
    /\ events' = events \o << [e |-> "guest_started", i |-> batch.i + 1],
                             [e |-> "guest_finished", i |-> batch.i + 1] >>
    /\ UNCHANGED << response, tasks, running, now, host_cache, weights, analyzer_calls, ops, pc,
                    call, cur, ret, batch_ret >>

\* the loop calls analyze_podcast_guest_complete(..., use_cache=True)
BatchGuestCall ==
    /\ pc = "b_loop"
    /\ batch.i < Len(call.guest_list)
    /\ LET guest_info == call.guest_list[batch.i + 1]
       IN  /\ Has(guest_info, "name") /\ Has(guest_info, "url")
           /\ cur' = Entry(guest_info.name, guest_info.url,
                           call.host_channel_url, TRUE)
    /\ batch' = [batch EXCEPT !.i = batch.i + 1]
    /\ Log([e |-> "guest_started", i |-> batch.i + 1])
    /\ pc' = "guest"
    /\ UNCHANGED << response, tasks, running, now, host_cache, weights, analyzer_calls, ops, call,
                    ret, batch_ret >>

\* an error record is dropped: it goes to neither list
BatchCollectDropsFailed ==
    /\ pc = "return"
    /\ call.kind = "batch"
    /\ batch' = IF ~Has(ret, "error")
                THEN [batch EXCEPT !.results = Append(batch.results, ret)]
                ELSE batch
    /\ Log([e |-> "guest_finished", i |-> batch.i])
    /\ cur' = None
    /\ ret' = None
    /\ pc' = "b_loop"
    /\ UNCHANGED << response, tasks, running, now, host_cache, weights, analyzer_calls, ops, call,
                    batch_ret >>

\* the call returned: the result goes to results or to failed_analyses
BatchCollect ==
    /\ pc = "return"
    /\ call.kind = "batch"
    /\ batch' = IF ~Has(ret, "error")
                THEN [batch EXCEPT !.results = Append(batch.results, ret)]
                ELSE [batch EXCEPT !.failed_analyses =
                          Append(batch.failed_analyses,
                                 [ guest_info |-> call.guest_list[batch.i],
                                   error |-> ret.error ])]
    /\ Log([e |-> "guest_finished", i |-> batch.i])
    /\ cur' = None
    /\ ret' = None
    /\ pc' = "b_loop"
    /\ UNCHANGED << response, tasks, running, now, host_cache, weights, analyzer_calls, ops, call,
                    batch_ret >>

\* generate_batch_summary: the values formatted into the summary text
generate_batch_summary(results, failed) ==
    IF results = << >>
    THEN [ text |-> "No successful analyses completed." ]
    ELSE LET scores == [k \in 1..Len(results) |->
                           results[k].recommendation_summary.overall_score]
         IN  [ text |-> "BATCH ANALYSIS SUMMARY",
               highest_score |-> CHOOSE s \in Range(scores) :
                                     \A r \in Range(scores) : r <= s,
               lowest_score |-> CHOOSE s \in Range(scores) :
                                    \A r \in Range(scores) : r >= s,
               top |-> [k \in 1..Min(3, Len(results)) |->
                          [ name |-> results[k].analysis_metadata.guest_name,
                            score |-> scores[k] ]],
               failed |-> Len(failed) ]

\* results.sort(key=overall_score, reverse=True)
SortResults(results) ==
    LET keys == [k \in 1..Len(results) |->
                    results[k].recommendation_summary.overall_score]
        order == SortedOrder(keys, Len(results))
    IN  [k \in 1..Len(results) |-> results[order[k]]]

\* the dict batch_analyze_guests returns
BatchResult(guest_list, host_channel_url, results, failed_analyses, t) ==
    [ batch_metadata |->
          [ total_guests |-> Len(guest_list),
            successful_analyses |-> Len(results),
            failed_analyses |-> Len(failed_analyses),
            host_channel_url |-> host_channel_url,
            analysis_timestamp |-> t ],
      guest_analyses |-> results,
      failed_analyses |-> failed_analyses,
      batch_summary |-> generate_batch_summary(results, failed_analyses),
      ranking |->
          [k \in 1..Len(results) |->
              [ rank |-> k,
                name |-> results[k].analysis_metadata.guest_name,
                score |-> results[k].recommendation_summary.overall_score,
                recommendation |->
                    results[k].recommendation_summary.recommendation ]] ]

\* the sort and the return do not wait for the last guest
BatchFinishEarly ==
    /\ pc = "b_loop"
    /\ batch.i + 1 >= Len(call.guest_list)
    /\ batch' = [batch EXCEPT !.results = SortResults(batch.results)]
    /\ batch_ret' = BatchResult(call.guest_list, call.host_channel_url,
                                batch'.results, batch.failed_analyses, now)
    /\ Log([e |-> "sorted"])
    /\ pc' = "idle"
    /\ UNCHANGED << response, tasks, running, now, host_cache, weights, analyzer_calls, ops, call, cur,
                    ret >>

\* after the loop: sort, summarise, return
BatchFinish ==
    /\ pc = "b_loop"
    /\ batch.i = Len(call.guest_list)
    /\ batch' = [batch EXCEPT !.results = SortResults(batch.results)]
    /\ batch_ret' = BatchResult(call.guest_list, call.host_channel_url,
                                batch'.results, batch.failed_analyses, now)
    /\ Log([e |-> "sorted"])
    /\ pc' = "idle"
    /\ UNCHANGED << response, tasks, running, now, host_cache, weights, analyzer_calls, ops, call,
                    cur, ret >>

\* One call, single or batch, on a fresh tracker, with every input and every
\* answer of the external services
NextOnce ==
    \/ /\ ops = 0
       /\ \E guest_name \in GuestNames, guest_url \in {GoodUrl, BadUrl},
             host_channel_url \in Channels, use_cache \in BOOLEAN :
              StartSingle(guest_name, guest_url, host_channel_url, use_cache)
    \/ GuestStepRaises
    \/ \E guest_profile \in GuestProfiles : GuestStep(guest_profile)
    \/ HostLookup
    \/ \E error \in BOOLEAN : HostAnalyze(error)
    \/ HostStore
    \/ ScoreStep
    \/ \E outcome \in LLMOutcomes : NarrateStep(outcome)
    \/ ReportStep
    \/ ReturnSingle
    \/ /\ ops = 0
       /\ \E guest_list \in SeqsUpTo(GuestRecords, MaxGuests),
             host_channel_url \in Channels :
              StartBatch(guest_list, host_channel_url)
    \/ \E error \in BOOLEAN : BatchHostAnalyze(error)
    \/ BatchHostStore
    \/ BatchGuestKeyError
    \/ BatchGuestCall
    \/ BatchCollect
    \/ BatchFinish
    \/ \E t \in Instants : Tick(t)

SpecOnce ==
    Init /\ [][NextOnce]_vars

\* Up to MaxOps calls one after the other on one tracker, so that a call
\* meets the cache the earlier calls left
Next ==
    \/ /\ ops < MaxOps
       /\ \E guest_url \in {GoodUrl, BadUrl}, host_channel_url \in Channels,
             use_cache \in BOOLEAN :
              StartSingle("Jane Doe", guest_url, host_channel_url, use_cache)
    \/ GuestStepRaises
    \/ \E guest_profile \in {PJane, PBob} : GuestStep(guest_profile)
    \/ HostLookup
    \/ \E error \in BOOLEAN : HostAnalyze(error)
    \/ HostStore
    \/ ScoreStep
    \/ \E outcome \in {o \in LLMOutcomes : ~o.ok} : NarrateStep(outcome)
    \/ ReportStep
    \/ ReturnSingle
    \/ /\ ops < MaxOps
       /\ \E guest_list \in SeqsUpTo({r \in GuestRecords : Has(r, "name")}, MaxGuests),
             host_channel_url \in Channels :
              StartBatch(guest_list, host_channel_url)
    \/ \E error \in BOOLEAN : BatchHostAnalyze(error)
    \/ BatchHostStore
    \/ BatchGuestKeyError
    \/ BatchGuestCall
    \/ BatchCollect
    \/ BatchFinish
    \/ \E t \in Instants : Tick(t)

Spec ==
    Init /\ [][Next]_vars

----------------------------------------------------------------------------
(* The scorer called on its own: one call of one method of                 *)
(* GuestRelevanceScorer on inputs given by the caller.                     *)

\* "Startups Weekly"
v_TopicOnly ==
    <<"S", "t", "a", "r", "t", "u", "p", "s", " ", "W", "e", "e", "k", "l",
      "y">>

\* "artificial intelligence"
x_ArtificialIntelligence ==
    <<"a", "r", "t", "i", "f", "i", "c", "i", "a", "l", " ", "i", "n", "t",
      "e", "l", "l", "i", "g", "e", "n", "c", "e">>

\* "startups"
x_Startups ==
    <<"s", "t", "a", "r", "t", "u", "p", "s">>

\* "AI"
x_AI ==
    <<"A", "I">>

\* "Entrepreneurship tips"
x_EntrepreneurshipTips ==
    <<"E", "n", "t", "r", "e", "p", "r", "e", "n", "e", "u", "r", "s", "h",
      "i", "p", " ", "t", "i", "p", "s">>

\* "technology"
h_technology ==
    <<"t", "e", "c", "h", "n", "o", "l", "o", "g", "y">>

\* "entrepreneurship"
h_entrepreneurship ==
    <<"e", "n", "t", "r", "e", "p", "r", "e", "n", "e", "u", "r", "s", "h",
      "i", "p">>

\* "Founder"
i_Founder ==
    <<"F", "o", "u", "n", "d", "e", "r">>

\* "CEO"
i_CEO ==
    <<"C", "E", "O">>

\* "Author"
i_Author ==
    <<"A", "u", "t", "h", "o", "r">>

\* "PhD"
i_PhD ==
    <<"P", "h", "D">>

\* "2M"
f_2M ==
    <<"2", "M">>

\* "45K"
f_45K ==
    <<"4", "5", "K">>

\* "1,500"
f_1500 ==
    <<"1", ",", "5", "0", "0">>

\* "many"
f_many ==
    <<"m", "a", "n", "y">>

\* "Tech Talk"
p_TechTalk ==
    <<"T", "e", "c", "h", " ", "T", "a", "l", "k">>

\* "Jane Doe"
n_JaneDoe ==
    <<"J", "a", "n", "e", " ", "D", "o", "e">>

\* "Robotics"
g_Robotics ==
    <<"R", "o", "b", "o", "t", "i", "c", "s">>

\* "Tech"
g_Tech ==
    <<"T", "e", "c", "h">>

\* "Launched new product"
r_LaunchedNewProduct ==
    <<"L", "a", "u", "n", "c", "h", "e", "d", " ", "n", "e", "w", " ", "p",
      "r", "o", "d", "u", "c", "t">>

\* "Published new book"
r_PublishedNewBook ==
    <<"P", "u", "b", "l", "i", "s", "h", "e", "d", " ", "n", "e", "w", " ",
      "b", "o", "o", "k">>

\* a key the caller leaves out of a mapping
NoKey ==
    [t |-> "absent"]

\* the mapping that holds the keys of `f` given a value
WithKeys(f) ==
    [k \in {key \in DOMAIN f : f[key] # NoKey} |-> f[k]]

\* n copies of x
Repeat(x, n) ==
    [i \in 1..n |-> x]

\* Sub-scores handed to the aggregation: the ends of [0, 1], the
\* thresholds 0.4, 0.7, 0.8 with a neighbour, and 1/6
SubScores ==
    {0, Scale \div 6, Pct(40), Pct(41), Pct(70), Pct(79), Pct(80), Scale}

\* values of data_quality_score and confidence_score around 50 and 70
QualityScores ==
    {0, 49, 50, 69, 70, 100}

\* values of videos_analyzed around 10 and 20; 0 is also the default of
\* an absent key
VideoCounts ==
    {0, 9, 10, 19, 20}

ConfidenceGuests ==
    { WithKeys([name |-> Str(n_JaneDoe), extraction_metadata |-> NoKey]) }
    \cup { [ name |-> Str(n_JaneDoe),
             extraction_metadata |->
                 [t |-> "meta", data_quality_score |-> q, confidence_score |-> c] ] :
           q \in QualityScores, c \in QualityScores }

ConfidenceHosts ==
    { [MockHostData EXCEPT !.videos_analyzed = n] : n \in VideoCounts }

\* the longest run of sampled titles on the guest's topic
MaxTitles == 7

\* sampled titles: a run on the guest's topic, then a title with the
\* guest's name, an unrelated title, both or none
TitleLists ==
    { Repeat(v_TopicOnly, n) \o rest :
        n \in 0..MaxTitles,
        rest \in { <<>>, <<v_Title2>>, <<v_Title1>>, <<v_Title1, v_Title2>> } }

UniquenessGuests ==
    { WithKeys([name |-> n, expertise_areas |-> e, industry |-> i]) :
        n \in {NoKey, EmptyStr, Str(n_JaneDoe)},
        e \in {NoKey, List(<<x_Startups>>)},
        i \in {NoKey, Str(g_Robotics), Str(g_Tech)} }

UniquenessHosts ==
    { [MockHostData EXCEPT !.raw_video_data = titles] : titles \in TitleLists }

TopicGuests ==
    { WithKeys([expertise_areas |-> e, key_topics |-> k]) :
        e \in { NoKey, EmptyList, List(<<x_ArtificialIntelligence, x_Startups>>),
                List(<<t_Technology>>), List(<<x_AI>>) },
        k \in { NoKey, EmptyList, List(<<x_EntrepreneurshipTips>>) } }

TopicHosts ==
    { [MockHostData EXCEPT !.primary_topics = topics] :
        topics \in { <<>>, <<h_technology, h_entrepreneurship>>, <<x_AI>>,
                     MockHostData.primary_topics } }

AuthorityGuests ==
    { WithKeys([ authority_indicators |-> a, social_following |-> s,
                 previous_podcasts |-> p ]) :
        a \in { NoKey, EmptyList, List(<<i_Founder, i_CEO>>),
                List(<<i_Founder, i_CEO, i_Author, i_PhD>>) },
        s \in { NoKey, EmptyDict,
                Dict(s_twitter :> Str(f_2M)),
                Dict((s_twitter :> Str(f_45K)) @@ (s_linkedin :> Str(s_500plus))),
                Dict(s_twitter :> Str(s_unknown)),
                Dict(s_twitter :> Str(f_1500)),
                Dict(s_twitter :> Str(f_many)) },
        p \in { NoKey, EmptyList, List(<<s_UnableToDetermine>>),
                List(<<p_TechTalk>>) } }

\* present mappings with any of the optional fields absent, empty or filled
\* (no total of these profiles is an exact half, see RoundHalfEven)
IncompleteGuests ==
    { WithKeys([ name |-> n, expertise_areas |-> e, key_topics |-> k,
                 previous_podcasts |-> p, social_following |-> s,
                 recent_activities |-> r ]) :
        n \in {NoKey, EmptyStr, Str(n_JaneDoe)},
        e \in {NoKey, EmptyList, List(<<x_Startups>>)},
        k \in {NoKey, EmptyList, List(<<x_EntrepreneurshipTips>>)},
        p \in {NoKey, EmptyList, List(<<p_TechTalk>>)},
        s \in {NoKey, EmptyDict,
                Dict((s_twitter :> Str(f_2M)) @@ (s_linkedin :> Str(s_500plus)))},
        r \in {NoKey, EmptyList,
                List(<<r_LaunchedNewProduct, r_PublishedNewBook>>)} }

\* a host analysis with its fields, and one with none of them
IncompleteHosts ==
    {MockHostData, ErrorHostData}

\* the caller's record of a call of method `fn`
ScorerCall(fn, guest_profile, host) ==
    [kind |-> "scorer", fn |-> fn, guest_profile |-> guest_profile, host |-> host]

\* determine_recommendation(overall_score)
Recommend ==
    /\ pc = "idle"
    /\ ops = 0
    /\ \E overall_score \in 0..100 :
           /\ call' = [kind |-> "scorer", fn |-> "determine_recommendation",
                       overall_score |-> overall_score]
           /\ ret' = [recommendation |-> determine_recommendation(overall_score)]
    /\ pc' = "scored"
    /\ ops' = 1
    /\ UNCHANGED << response, tasks, running, now, host_cache, weights, analyzer_calls, cur, batch,
                    batch_ret, events >>

\* lines 38-68 of calculate_overall_relevance_score on given sub-scores:
\* the weighted score, its tier, the strengths and the concerns
Aggregate ==
    /\ pc = "idle"
    /\ ops = 0
    /\ \E scores \in [Range(Factors) -> SubScores] :
           /\ call' = [kind |-> "scorer", fn |-> "aggregate", scores |-> scores]
           /\ ret' = LET overall_score == weighted_overall_score(scores, weights)
                     IN  [ overall_relevance_score |-> overall_score,
                           recommendation |->
                               determine_recommendation(overall_score),
                           key_strengths |-> identify_key_strengths(scores),
                           areas_of_concern |->
                               identify_areas_of_concern(scores) ]
    /\ pc' = "scored"
    /\ ops' = 1
    /\ UNCHANGED << response, tasks, running, now, host_cache, weights, analyzer_calls, cur, batch,
                    batch_ret, events >>

Confidence ==
    /\ pc = "idle"
    /\ ops = 0
    /\ \E guest_profile \in ConfidenceGuests, host \in ConfidenceHosts :
           /\ call' = ScorerCall("determine_confidence_level", guest_profile, host)
           /\ ret' = [confidence_level |-> determine_confidence_level(guest_profile, host)]
    /\ pc' = "scored"
    /\ ops' = 1
    /\ UNCHANGED << response, tasks, running, now, host_cache, weights, analyzer_calls, cur, batch,
                    batch_ret, events >>

Uniqueness ==
    /\ pc = "idle"
    /\ ops = 0
    /\ \E guest_profile \in UniquenessGuests, host \in UniquenessHosts :
           /\ call' = ScorerCall("calculate_uniqueness_factor", guest_profile, host)
           /\ ret' = [score |-> calculate_uniqueness_factor(guest_profile, host)]
    /\ pc' = "scored"
    /\ ops' = 1
    /\ UNCHANGED << response, tasks, running, now, host_cache, weights, analyzer_calls, cur, batch,
                    batch_ret, events >>

TopicAlignment ==
    /\ pc = "idle"
    /\ ops = 0
    /\ \E guest_profile \in TopicGuests, host \in TopicHosts :
           /\ call' = ScorerCall("calculate_topic_alignment", guest_profile, host)
           /\ ret' = [score |-> calculate_topic_alignment(guest_profile, host)]
    /\ pc' = "scored"
    /\ ops' = 1
    /\ UNCHANGED << response, tasks, running, now, host_cache, weights, analyzer_calls, cur, batch,
                    batch_ret, events >>

Authority ==
    /\ pc = "idle"
    /\ ops = 0
    /\ \E guest_profile \in AuthorityGuests, host \in {MockHostData} :
           /\ call' = ScorerCall("calculate_authority_score", guest_profile, host)
           /\ ret' = [score |-> calculate_authority_score(guest_profile, host)]
    /\ pc' = "scored"
    /\ ops' = 1
    /\ UNCHANGED << response, tasks, running, now, host_cache, weights, analyzer_calls, cur, batch,
                    batch_ret, events >>

\* calculate_overall_relevance_score: the result, or the exception raised
Score ==
    /\ pc = "idle"
    /\ ops = 0
    /\ \E guest_profile \in IncompleteGuests, host \in IncompleteHosts :
           /\ call' = ScorerCall("calculate_overall_relevance_score", guest_profile, host)
           /\ ret' = IF ScoringRaises(guest_profile, host)
                     THEN [raised |-> ScoringError(guest_profile, host)]
                     ELSE calculate_overall_relevance_score(
                              guest_profile, host, weights, now)
    /\ pc' = "scored"
    /\ ops' = 1
    /\ UNCHANGED << response, tasks, running, now, host_cache, weights, analyzer_calls, cur, batch,
                    batch_ret, events >>

\* relevance results as generate_fallback_validation reads them: a score, a
\* tier (one of the five, or a value that is none of them), and lists of
\* none, one or two strengths and concerns
FallbackInputs ==
    { [ overall_relevance_score |-> score, recommendation |-> tier,
        key_strengths |-> strengths, areas_of_concern |-> concerns ] :
        score \in {0, 48, 60, 85, 100},
        tier \in { "HIGHLY_RECOMMENDED", "RECOMMENDED", "CONSIDER",
                   "LOW_PRIORITY", "NOT_RECOMMENDED", "UNKNOWN" },
        strengths \in { << >>, <<StrongStrength.topic_alignment>>,
                        <<StrongStrength.topic_alignment,
                          StrongStrength.authority_score>> },
        concerns \in { << >>, <<Concern.topic_alignment>>,
                       <<Concern.topic_alignment, Concern.uniqueness_factor>>,
                       <<Concern.uniqueness_factor, Concern.topic_alignment>> } }

Fallback ==
    /\ pc = "idle"
    /\ ops = 0
    /\ \E relevance_analysis \in FallbackInputs :
           /\ call' = [ kind |-> "scorer",
                        fn |-> "generate_fallback_validation",
                        relevance_analysis |-> relevance_analysis ]
           /\ ret' = [text |-> generate_fallback_validation(relevance_analysis)]
    /\ pc' = "scored"
    /\ ops' = 1
    /\ UNCHANGED << response, tasks, running, now, host_cache, weights,
                    analyzer_calls, cur, batch, batch_ret, events >>

NextScorer ==
    \/ Recommend
    \/ Aggregate
    \/ Confidence
    \/ Uniqueness
    \/ TopicAlignment
    \/ Authority
    \/ Score
    \/ Fallback

SpecScorer ==
    Init /\ [][NextScorer]_vars

----------------------------------------------------------------------------
(* Concurrent callers of one shared tracker (PodcastGuestTrackerAPI holds   *)
(* one tracker for every request).  asyncio executes one task at a time and *)
(* switches only where the running task suspends.  The scrapers, the host   *)
(* analyzer and the narration client block on `requests`; the only await of *)
(* the pipeline that can reach the event loop is                            *)
(* `await self.session.close()` in PremiumGuestAnalyzer.__aexit__.          *)

MaxTasks == 2
MaxBatchGuests == 1

TaskIds ==
    1..MaxTasks

\* the coroutines a caller can start: analyze_podcast_guest_complete and
\* batch_analyze_guests, on entry
TaskInputs ==
    { [ kind |-> "single", pos |-> "created", host_channel_url |-> c,
        use_cache |-> u, guests_left |-> 0, guest_ok |-> TRUE,
        invocation |-> 0, host_analysis |-> None ] :
          c \in Channels, u \in BOOLEAN }
    \cup
    { [ kind |-> "batch", pos |-> "created", host_channel_url |-> c,
        use_cache |-> TRUE, guests_left |-> n, guest_ok |-> TRUE,
        invocation |-> 0, host_analysis |-> None ] :
          c \in Channels, n \in 0..MaxBatchGuests }

\* the callers' coroutines are scheduled as tasks on the event loop
Spawn ==
    /\ pc = "idle"
    /\ ops = 0
    /\ \E ts \in [TaskIds -> TaskInputs] : tasks' = ts
    /\ ops' = 1
    /\ pc' = "tasks"
    /\ UNCHANGED << response, running, now, host_cache, weights, analyzer_calls, call,
                    cur, batch, ret, batch_ret, events >>

\* the event loop gives a new task its first run
TaskStart(t) ==
    /\ pc = "tasks"
    /\ running = 0
    /\ tasks[t].pos = "created"
    /\ running' = t
    /\ tasks' = [tasks EXCEPT ![t].pos =
                     IF tasks[t].kind = "single" THEN "guest" ELSE "b_host"]
    /\ UNCHANGED << response, now, host_cache, weights, analyzer_calls, ops, pc, call,
                    cur, batch, ret, batch_ret, events >>

\* lines 62-71: the guest analysis returns a profile or raises, and the
\* `async with` block is left through __aexit__
TaskGuestStep(t, ok) ==
    /\ running = t
    /\ tasks[t].pos = "guest"
    /\ tasks' = [tasks EXCEPT ![t].pos = "closing", ![t].guest_ok = ok,
                              ![t].host_analysis = None]
    /\ UNCHANGED << response, running, now, host_cache, weights, analyzer_calls, ops,
                    pc, call, cur, batch, ret, batch_ret, events >>

\* where the call goes on after __aexit__: step 2, or the except clause
AfterClose(task) ==
    IF task.guest_ok THEN "host_lookup" ELSE "rest"

\* `await self.session.close()` completes without suspending
TaskCloseReturns(t) ==
    /\ running = t
    /\ tasks[t].pos = "closing"
    /\ tasks' = [tasks EXCEPT ![t].pos = AfterClose(tasks[t])]
    /\ UNCHANGED << response, running, now, host_cache, weights, analyzer_calls, ops,
                    pc, call, cur, batch, ret, batch_ret, events >>

\* `await self.session.close()` suspends the task: the loop is free
TaskCloseSuspends(t) ==
    /\ running = t
    /\ tasks[t].pos = "closing"
    /\ tasks' = [tasks EXCEPT ![t].pos = "suspended"]
    /\ running' = 0
    /\ UNCHANGED << response, now, host_cache, weights, analyzer_calls, ops, pc, call,
                    cur, batch, ret, batch_ret, events >>

\* the event loop resumes a suspended task
TaskResume(t) ==
    /\ pc = "tasks"
    /\ running = 0
    /\ tasks[t].pos = "suspended"
    /\ running' = t
    /\ tasks' = [tasks EXCEPT ![t].pos = AfterClose(tasks[t])]
    /\ UNCHANGED << response, now, host_cache, weights, analyzer_calls, ops, pc, call,
                    cur, batch, ret, batch_ret, events >>

\* lines 81-86, the cache check
TaskHostLookup(t) ==
    /\ running = t
    /\ tasks[t].pos = "host_lookup"
    /\ LET key == tasks[t].host_channel_url
           hit == /\ tasks[t].use_cache
                  /\ key \in DOMAIN host_cache
                  /\ IsFresh(now - host_cache[key].timestamp)
       IN  tasks' = [tasks EXCEPT
                        ![t].host_analysis =
                            IF hit THEN host_cache[key].data ELSE None,
                        ![t].pos = IF hit THEN "rest" ELSE "host_analyze"]
    /\ UNCHANGED << response, running, now, host_cache, weights, analyzer_calls, ops,
                    pc, call, cur, batch, ret, batch_ret, events >>

\* an analyzer that waits for the network: the task suspends inside it
TaskHostAnalyzeBeginSuspends(t) ==
    /\ running = t
    /\ tasks[t].pos \in {"host_analyze", "b_host"}
    /\ analyzer_calls' = analyzer_calls + 1
    /\ tasks' = [tasks EXCEPT
                    ![t].invocation = analyzer_calls',
                    ![t].pos = IF tasks[t].pos = "b_host"
                               THEN "b_analyzing" ELSE "analyzing"]
    /\ running' = 0
    /\ UNCHANGED << response, now, host_cache, weights, ops, pc, call, cur, batch,
                    ret, batch_ret, events >>

\* lines 90 and 362: analyze_host_channel is entered; its body has no await,
\* so the task keeps the event loop until it returns
TaskHostAnalyzeBegin(t) ==
    /\ running = t
    /\ tasks[t].pos \in {"host_analyze", "b_host"}
    /\ analyzer_calls' = analyzer_calls + 1
    /\ tasks' = [tasks EXCEPT
                    ![t].invocation = analyzer_calls',
                    ![t].pos = IF tasks[t].pos = "b_host"
                               THEN "b_analyzing" ELSE "analyzing"]
    /\ running' = t
    /\ UNCHANGED << response, now, host_cache, weights, ops, pc, call, cur, batch,
                    ret, batch_ret, events >>

\* analyze_host_channel returns an analysis or an error dict
TaskHostAnalyzeEnd(t, error) ==
    /\ running = t
    /\ tasks[t].pos \in {"analyzing", "b_analyzing"}
    /\ tasks' = [tasks EXCEPT
                    ![t].host_analysis =
                        [id |-> tasks[t].invocation, error |-> error],
                    ![t].pos = IF tasks[t].pos = "b_analyzing"
                               THEN "b_store" ELSE "host_store"]
    /\ UNCHANGED << response, running, now, host_cache, weights, analyzer_calls, ops,
                    pc, call, cur, batch, ret, batch_ret, events >>

\* lines 93-97
TaskHostStore(t) ==
    /\ running = t
    /\ tasks[t].pos = "host_store"
    /\ host_cache' =
           IF tasks[t].use_cache /\ ~tasks[t].host_analysis.error
           THEN [key \in DOMAIN host_cache \cup {tasks[t].host_channel_url} |->
                    IF key = tasks[t].host_channel_url
                    THEN [data |-> tasks[t].host_analysis, timestamp |-> now]
                    ELSE host_cache[key]]
           ELSE host_cache
    /\ tasks' = [tasks EXCEPT ![t].pos = "rest"]
    /\ UNCHANGED << response, running, now, weights, analyzer_calls, ops, pc, call,
                    cur, batch, ret, batch_ret, events >>

\* lines 365-368
TaskBatchHostStore(t) ==
    /\ running = t
    /\ tasks[t].pos = "b_store"
    /\ host_cache' =
           [key \in DOMAIN host_cache \cup {tasks[t].host_channel_url} |->
               IF key = tasks[t].host_channel_url
               THEN [data |-> tasks[t].host_analysis, timestamp |-> now]
               ELSE host_cache[key]]
    /\ tasks' = [tasks EXCEPT ![t].pos = "b_loop"]
    /\ UNCHANGED << response, running, now, weights, analyzer_calls, ops, pc, call,
                    cur, batch, ret, batch_ret, events >>

\* lines 102-177: scoring, narration and the report do not suspend; the
\* call returns, to the batch loop or to the event loop
TaskFinish(t) ==
    /\ running = t
    /\ tasks[t].pos = "rest"
    /\ tasks' = [tasks EXCEPT ![t].pos =
                     IF tasks[t].kind = "batch" THEN "b_loop" ELSE "done"]
    /\ running' = IF tasks[t].kind = "batch" THEN t ELSE 0
    /\ UNCHANGED << response, now, host_cache, weights, analyzer_calls, ops, pc, call,
                    cur, batch, ret, batch_ret, events >>

\* lines 371-380 and 396-422: the next guest, or the batch returns
TaskBatchLoop(t) ==
    /\ running = t
    /\ tasks[t].pos = "b_loop"
    /\ tasks' = [tasks EXCEPT
                    ![t].pos = IF tasks[t].guests_left > 0
                               THEN "guest" ELSE "done",
                    ![t].guests_left = IF tasks[t].guests_left > 0
                                       THEN tasks[t].guests_left - 1 ELSE 0]
    /\ running' = IF tasks[t].guests_left > 0 THEN t ELSE 0
    /\ UNCHANGED << response, now, host_cache, weights, analyzer_calls, ops, pc, call,
                    cur, batch, ret, batch_ret, events >>

NextTasks ==
    \/ Spawn
    \/ \E t \in TaskIds : TaskStart(t)
    \/ \E t \in TaskIds, ok \in BOOLEAN : TaskGuestStep(t, ok)
    \/ \E t \in TaskIds : TaskCloseReturns(t)
    \/ \E t \in TaskIds : TaskCloseSuspends(t)
    \/ \E t \in TaskIds : TaskResume(t)
    \/ \E t \in TaskIds : TaskHostLookup(t)
    \/ \E t \in TaskIds : TaskHostAnalyzeBegin(t)
    \/ \E t \in TaskIds, error \in BOOLEAN : TaskHostAnalyzeEnd(t, error)
    \/ \E t \in TaskIds : TaskHostStore(t)
    \/ \E t \in TaskIds : TaskBatchHostStore(t)
    \/ \E t \in TaskIds : TaskFinish(t)
    \/ \E t \in TaskIds : TaskBatchLoop(t)

SpecTasks ==
    Init /\ [][NextTasks]_vars

----------------------------------------------------------------------------
(* PodcastGuestTrackerAPI.analyze_single_guest: one request handled by the  *)
(* API wrapper on a fresh tracker                                           *)

RequiredFields ==
    <<"guest_name", "guest_url", "host_channel_url">>

\* request bodies: complete, or lacking one of the required fields
Requests ==
    LET complete ==
            { [guest_name |-> n, guest_url |-> u, host_channel_url |-> c] :
                n \in GuestNames, u \in {GoodUrl, BadUrl}, c \in Channels }
    IN  complete
        \cup { [guest_url |-> r.guest_url,
                host_channel_url |-> r.host_channel_url] : r \in complete }
        \cup { [guest_name |-> r.guest_name,
                host_channel_url |-> r.host_channel_url] : r \in complete }
        \cup { [guest_name |-> r.guest_name,
                guest_url |-> r.guest_url] : r \in complete }

\* the first required field the request lacks, 0 when it has them all
FirstMissing(request_data) ==
    LET missing == { i \in DOMAIN RequiredFields :
                        RequiredFields[i] \notin DOMAIN request_data }
    IN  IF missing = {} THEN 0
        ELSE CHOOSE i \in missing : \A j \in missing : i <= j

\* lines 471-474: a request without a required field is answered at once
ApiReject(request_data) ==
    /\ pc = "idle"
    /\ ops = 0
    /\ FirstMissing(request_data) # 0
    /\ call' = [kind |-> "api", request_data |-> request_data]
    /\ response' = [error |-> << "Missing required field: ",
                                 RequiredFields[FirstMissing(request_data)] >>]
    /\ ops' = 1
    /\ UNCHANGED << tasks, running, now, host_cache, weights, analyzer_calls,
                    pc, cur, batch, ret, batch_ret, events >>

\* lines 476-481: the tracker is called, with use_cache left at its default
ApiStart(request_data) ==
    /\ pc = "idle"
    /\ ops = 0
    /\ FirstMissing(request_data) = 0
    /\ call' = [kind |-> "api", request_data |-> request_data]
    /\ cur' = Entry(request_data.guest_name, request_data.guest_url,
                    request_data.host_channel_url, TRUE)
    /\ pc' = "guest"
    /\ ops' = 1
    /\ events' = << [e |-> "guest_started", i |-> 0] >>
    /\ UNCHANGED << response, tasks, running, now, host_cache, weights,
                    analyzer_calls, batch, ret, batch_ret >>

\* lines 483-486: the call returned (it catches every exception itself, so
\* the except clause of lines 488-492 is never entered)
ApiRespond ==
    /\ pc = "return"
    /\ call.kind = "api"
    /\ response' = [success |-> TRUE, data |-> ret]
    /\ cur' = None
    /\ pc' = "idle"
    /\ UNCHANGED << tasks, running, now, host_cache, weights, analyzer_calls,
                    ops, call, batch, ret, batch_ret, events >>

NextApi ==
    \/ \E request_data \in Requests : ApiReject(request_data)
    \/ \E request_data \in Requests : ApiStart(request_data)
    \/ GuestStepRaises
    \/ \E guest_profile \in GuestProfiles : GuestStep(guest_profile)
    \/ HostLookup
    \/ \E error \in BOOLEAN : HostAnalyze(error)
    \/ HostStore
    \/ ScoreStep
    \/ \E outcome \in LLMOutcomes : NarrateStep(outcome)
    \/ ReportStep
    \/ ApiRespond
    \/ \E t \in Instants : Tick(t)

SpecApi ==
    Init /\ [][NextApi]_vars

----------------------------------------------------------------------------
(* Properties                                                              *)

\* the events of the guest analysis in progress (or last finished)
CurrentGuestEvents ==
    LET starts == {k \in 1..Len(events) : events[k].e = "guest_started"}
        last == CHOOSE k \in starts : \A j \in starts : j <= k
    IN  IF starts = {} THEN << >> ELSE SubSeq(events, last, Len(events))

InvokedForCurrentGuest ==
    \E k \in 1..Len(CurrentGuestEvents) : CurrentGuestEvents[k].e = "host_analyzed"

\* C1: in a single-guest analysis with use_cache=True, an entry for the
\* channel whose age at lookup is below 86400 s is used as it is and the
\* analyzer is not invoked; with no entry, or one aged 86400 s or more, the
\* analyzer is invoked and its fresh analysis is the one scored.
C1_CacheHitWithinTTL ==
    (pc \in {"host_analyze", "host_store", "score", "narrate", "report"}
        /\ cur.use_cache) =>
        LET key == cur.host_channel_url
        IN  /\ pc = "host_analyze" =>
                   cur.cache_age = IF key \in DOMAIN host_cache
                                   THEN <<now - host_cache[key].timestamp>>
                                   ELSE << >>
            /\ IF cur.cache_age # << >> /\ cur.cache_age[1] < TTL
               THEN /\ pc \notin {"host_analyze", "host_store"}
                    /\ ~InvokedForCurrentGuest
                    /\ cur.host_analysis = host_cache[key].data
               ELSE pc # "host_analyze" =>
                        /\ InvokedForCurrentGuest
                        /\ cur.host_analysis.id = analyzer_calls

\* an entry one second short of expiry is used
C1_Witness ==
    /\ pc = "score"
    /\ cur.use_cache
    /\ cur.cache_age = <<TTL - 1>>
    /\ cur.host_analysis = host_cache[cur.host_channel_url].data
    /\ ~InvokedForCurrentGuest

\* C2: during one batch call the host analyzer is invoked exactly once,
\* before any guest, and every successful result carries that analysis.
C2_BatchAnalyzesHostOnce ==
    (call.kind = "batch" /\ pc # "b_host") =>
        /\ Cardinality({k \in 1..Len(events) : events[k].e = "host_analyzed"}) = 1
        /\ events[1].e = "host_analyzed"
        /\ \A k \in 1..Len(batch.results) :
               batch.results[k].host_analysis = batch.host_analysis

\* guest records that cannot be analysed, whatever the services answer
CannotSucceed(guest_info) ==
    \/ ~Has(guest_info, "name")
    \/ ~Has(guest_info, "url")
    \/ GuestAnalysisRaises(guest_info.url)

\* the number of positions of `seq` that hold `x`
Count(seq, x) ==
    Cardinality({k \in 1..Len(seq) : seq[k] = x})

\* the guest records of the entries of failed_analyses
FailedGuests(failed) ==
    [k \in 1..Len(failed) |-> failed[k].guest_info]

\* the (name, url) records of the successful analyses
AnalysedGuests(analyses) ==
    [k \in 1..Len(analyses) |->
        [ name |-> analyses[k].analysis_metadata.guest_name,
          url |-> analyses[k].analysis_metadata.guest_url ]]

Attempted(i) ==
    /\ \E k \in 1..Len(events) : events[k] = [e |-> "guest_started", i |-> i]
    /\ \E k \in 1..Len(events) : events[k] = [e |-> "guest_finished", i |-> i]

\* C3: in a batch a failing guest (error record, exception, record lacking
\* 'name' or 'url') becomes one {guest_info, error} entry of
\* failed_analyses; the loop goes on with the next guest and the call
\* returns a result for which every guest was attempted.
C3_FailureDoesNotAbortBatch ==
    (call.kind = "batch" /\ pc \in {"b_loop", "idle"}) =>
        LET guest_list == call.guest_list
            done == batch.i
        IN  /\ Len(batch.results) + Len(batch.failed_analyses) = done
            /\ \A k \in 1..Len(batch.failed_analyses) :
                   /\ DOMAIN batch.failed_analyses[k] = {"guest_info", "error"}
                   /\ \E i \in 1..done :
                          batch.failed_analyses[k].guest_info = guest_list[i]
            /\ \A i \in 1..done :
                   CannotSucceed(guest_list[i]) =>
                       Count(FailedGuests(batch.failed_analyses), guest_list[i])
                           = Count(SubSeq(guest_list, 1, done), guest_list[i])
            /\ (pc = "b_loop" /\ done < Len(guest_list)) =>
                   ENABLED (BatchGuestCall \/ BatchGuestKeyError)
            /\ (pc = "b_loop" /\ done = Len(guest_list)) => ENABLED BatchFinish
            /\ pc = "idle" =>
                   /\ batch_ret # None
                   /\ done = Len(guest_list)
                   /\ \A i \in 1..Len(guest_list) : Attempted(i)
                   /\ batch_ret.failed_analyses = batch.failed_analyses

\* the first guest lacks 'url', the second is analysed and ranked
C3_Witness ==
    /\ call.kind = "batch"
    /\ pc = "idle"
    /\ Len(call.guest_list) = 2
    /\ ~Has(call.guest_list[1], "url")
    /\ batch_ret.failed_analyses =
           << [guest_info |-> call.guest_list[1], error |-> "'url'"] >>
    /\ Len(batch_ret.guest_analyses) = 1

\* C4: in a batch result every input guest is in exactly one of
\* guest_analyses and failed_analyses, a failed guest is in neither
\* guest_analyses nor ranking, ranking has one entry per successful guest
\* with ranks 1..k, total_guests = successful_analyses + failed_analyses,
\* and a batch whose guests all fail returns with an empty ranking.
C4_BatchResultPartition ==
    (call.kind = "batch" /\ batch_ret # None) =>
        LET guest_list == call.guest_list
            analyses == batch_ret.guest_analyses
            failed == batch_ret.failed_analyses
            ranking == batch_ret.ranking
            metadata == batch_ret.batch_metadata
        IN  /\ \A i \in 1..Len(guest_list) :
                   /\ Count(guest_list, guest_list[i])
                          = Count(AnalysedGuests(analyses), guest_list[i])
                              + Count(FailedGuests(failed), guest_list[i])
                   /\ CannotSucceed(guest_list[i]) =>
                          Count(AnalysedGuests(analyses), guest_list[i]) = 0
            /\ Len(analyses) + Len(failed) = Len(guest_list)
            /\ \A k \in 1..Len(analyses) :
                   /\ ~Has(analyses[k], "error")
                   /\ ~GuestAnalysisRaises(analyses[k].analysis_metadata.guest_url)
            /\ Len(ranking) = Len(analyses)
            /\ \A k \in 1..Len(ranking) :
                   /\ ranking[k].rank = k
                   /\ ranking[k].name = analyses[k].analysis_metadata.guest_name
                   /\ ranking[k].score
                          = analyses[k].relevance_analysis.overall_relevance_score
            /\ metadata.total_guests = Len(guest_list)
            /\ metadata.successful_analyses = Len(analyses)
            /\ metadata.failed_analyses = Len(failed)
            /\ metadata.total_guests
                   = metadata.successful_analyses + metadata.failed_analyses

\* every guest of a batch of two failed: empty ranking, two failed entries
C4_Witness ==
    /\ call.kind = "batch"
    /\ batch_ret # None
    /\ Len(call.guest_list) = 2
    /\ batch_ret.ranking = << >>
    /\ Len(batch_ret.failed_analyses) = 2
    /\ batch_ret.batch_metadata.failed_analyses = 2

\* the injective maps of 1..n onto itself
Orderings(n) ==
    {p \in [1..n -> 1..n] : \A a, b \in 1..n : p[a] = p[b] => a = b}

\* `sorted` holds the elements of `results` in non-increasing order of
\* score, those of equal score in the order they have in `results`
IsStableDescendingSort(results, sorted) ==
    /\ Len(sorted) = Len(results)
    /\ \E p \in Orderings(Len(results)) :
           /\ \A k \in 1..Len(results) : sorted[k] = results[p[k]]
           /\ \A k, l \in 1..Len(results) :
                  k < l =>
                      LET a == results[p[k]].relevance_analysis.overall_relevance_score
                          b == results[p[l]].relevance_analysis.overall_relevance_score
                      IN  a > b \/ (a = b /\ p[k] < p[l])

\* C5: guest_analyses and ranking are the successful results in
\* non-increasing order of overall_relevance_score, results of equal score
\* in the order in which they were processed.
C5_RankingStableDescending ==
    [][ (call.kind = "batch" /\ pc = "b_loop" /\ pc' = "idle") =>
            /\ IsStableDescendingSort(batch.results, batch_ret'.guest_analyses)
            /\ \A k \in 1..Len(batch_ret'.ranking) :
                   batch_ret'.ranking[k].score =
                       batch_ret'.guest_analyses[k].relevance_analysis.overall_relevance_score
      ]_vars

\* two different results of the same score were ranked
C5_Witness ==
    /\ call.kind = "batch"
    /\ batch_ret # None
    /\ Len(batch_ret.ranking) = 2
    /\ batch_ret.ranking[1].score = batch_ret.ranking[2].score
    /\ batch_ret.guest_analyses[1] # batch_ret.guest_analyses[2]

\* the positions in `events` of the event `ev`
Positions(ev) ==
    {k \in 1..Len(events) : events[k] = ev}

\* C6: in a batch the host analysis comes first, the guests are analysed in
\* list order one at a time (guest i+1 starts after guest i has finished),
\* and the sort comes after every guest has been attempted.
C6_BatchEventsOrdered ==
    (call.kind = "batch" /\ events # << >>) =>
        LET N == Len(call.guest_list)
            started(i) == Positions([e |-> "guest_started", i |-> i])
            finished(i) == Positions([e |-> "guest_finished", i |-> i])
            sorted == Positions([e |-> "sorted"])
        IN  /\ events[1] = [e |-> "host_analyzed"]
            /\ \A i \in 1..N :
                   /\ Cardinality(started(i)) <= 1
                   /\ Cardinality(finished(i)) <= 1
                   /\ \A f \in finished(i) : \E s \in started(i) : s < f
                   /\ \A s \in started(i) :
                          /\ s > 1
                          /\ i > 1 => \E f \in finished(i - 1) : f < s
            /\ \A k \in 1..Len(events) :
                   events[k].e \in {"guest_started", "guest_finished"} =>
                       events[k].i \in 1..N
            /\ \A s \in sorted :
                   /\ s = Len(events)
                   /\ \A i \in 1..N : \E f \in finished(i) : f < s
            /\ batch_ret # None => sorted # {}

\* a batch of two guests has been sorted
C6_Witness ==
    /\ call.kind = "batch"
    /\ Len(call.guest_list) = 2
    /\ events # << >>
    /\ events[Len(events)] = [e |-> "sorted"]
    /\ Len(batch_ret.guest_analyses) = 2

\* the service outcomes in which the request raises
FailedRequests ==
    {outcome \in LLMOutcomes : ~outcome.ok}

\* C7: when a step of the single-guest analysis raises, no later step runs
\* and the call returns a record holding the message under 'error' and the
\* request metadata with status FAILED, and none of guest_profile,
\* host_analysis, relevance_analysis, llm_validation, final_report,
\* recommendation_summary; a successful result has no 'error' field.
C7_ErrorRecordOnly ==
    (pc = "return") =>
        IF Has(ret, "error")
        THEN /\ DOMAIN ret = {"error", "analysis_metadata"}
             /\ ret.error = IF cur.guest_profile = None
                            THEN GuestAnalysisError(cur.guest_url)
                            ELSE ScoringError(cur.guest_profile,
                                              HostData(cur.host_analysis))
             /\ ret.analysis_metadata =
                    [ guest_name |-> cur.guest_name,
                      guest_url |-> cur.guest_url,
                      host_channel_url |-> cur.host_channel_url,
                      analysis_timestamp |-> now,
                      status |-> "FAILED" ]
             /\ cur.guest_profile = None =>
                    /\ cur.host_analysis = None
                    /\ ~InvokedForCurrentGuest
             /\ cur.relevance_analysis = None
             /\ cur.llm_validation = None
        ELSE /\ DOMAIN ret = { "analysis_metadata", "guest_profile", "host_analysis",
                               "relevance_analysis", "llm_validation",
                               "final_report", "recommendation_summary" }
             /\ ret.guest_profile = cur.guest_profile
             /\ ret.host_analysis = cur.host_analysis
             /\ ret.relevance_analysis = cur.relevance_analysis
             /\ ret.llm_validation = cur.llm_validation
             /\ None \notin { cur.guest_profile, cur.host_analysis,
                              cur.relevance_analysis, cur.llm_validation }

\* scoring raised after the profile and the host analysis had been computed
C7_Witness ==
    /\ pc = "return"
    /\ Has(ret, "error")
    /\ ret.error = "'str' object has no attribute 'get'"
    /\ cur.guest_profile # None
    /\ cur.host_analysis # None
    /\ DOMAIN ret = {"error", "analysis_metadata"}

\* C8: whenever the request to the text-generation service fails, the
\* narration step returns exactly the text generate_fallback_validation
\* produces for the relevance result.
C8_FallbackOnFailedRequest ==
    (pc = "narrate") =>
        \A outcome \in FailedRequests :
            call_llm_for_scoring_validation(cur.relevance_analysis, outcome)
                = generate_fallback_validation(cur.relevance_analysis)

\* a text returned by the narration step is not empty
NonEmptyText(text) ==
    /\ text # None
    /\ text.t = "str" => text.v # << >>

\* C9: once the guest, host and scoring steps have succeeded, every outcome
\* of the text-generation service leads to a result without 'error' that
\* carries the computed relevance_analysis and a non-empty llm_validation.
C9_NarrationNeverAborts ==
    /\ (pc = "narrate") =>
           \A outcome \in LLMOutcomes :
               NonEmptyText(call_llm_for_scoring_validation(
                                cur.relevance_analysis, outcome))
    /\ (pc \in {"report", "return"} /\ cur.relevance_analysis # None) =>
           NonEmptyText(cur.llm_validation)
    /\ (pc = "return" /\ cur.relevance_analysis # None) =>
           /\ ~Has(ret, "error")
           /\ ret.relevance_analysis = cur.relevance_analysis
           /\ ret.llm_validation = cur.llm_validation

\* the request failed and the analysis returned its result all the same
C9_Witness ==
    /\ pc = "return"
    /\ ~Has(ret, "error")
    /\ ret.relevance_analysis # None
    /\ \E outcome \in FailedRequests : ret.llm_validation = generate_text(outcome)

\* a relevance result without the time at which it was computed
WithoutTimestamp(relevance_analysis) ==
    [field \in DOMAIN relevance_analysis \ {"analysis_timestamp"} |->
        relevance_analysis[field]]

\* the results of the batch in progress whose scoring had the same inputs
SameInputs(a, b) ==
    /\ a.guest_profile = b.guest_profile
    /\ HostData(a.host_analysis) = HostData(b.host_analysis)

\* C10 as stated: two scoring calls with identical profile and host
\* analysis, at any two times, return records equal in every field.
C10_ScoringIdenticalAtAnyTime ==
    (call.kind = "batch") =>
        \A k, l \in 1..Len(batch.results) :
            SameInputs(batch.results[k], batch.results[l]) =>
                batch.results[k].relevance_analysis
                    = batch.results[l].relevance_analysis

\* C10: two scoring calls with identical profile and host analysis return
\* records equal in every field other than analysis_timestamp, the time of
\* the call; the scorer's weights stay as constructed and the profile
\* given to the scorer is the one the result carries.
C10_ScoringDeterministicButTimestamp ==
    /\ weights = DefaultWeights
    /\ (call.kind = "batch") =>
           \A k, l \in 1..Len(batch.results) :
               /\ batch.results[k].guest_profile \in GuestProfiles
               /\ batch.results[k].relevance_analysis.analysis_timestamp \in Instants
               /\ SameInputs(batch.results[k], batch.results[l]) =>
                      WithoutTimestamp(batch.results[k].relevance_analysis)
                          = WithoutTimestamp(batch.results[l].relevance_analysis)

\* the same profile was scored twice against the same host data, at two times
C10_Witness ==
    /\ call.kind = "batch"
    /\ Len(batch.results) = 2
    /\ SameInputs(batch.results[1], batch.results[2])
    /\ batch.results[1].relevance_analysis.analysis_timestamp
           # batch.results[2].relevance_analysis.analysis_timestamp

\* the call of method `fn` of the scorer has returned
Scored(fn) ==
    pc = "scored" /\ call.fn = fn

\* C11: the five default weights sum to exactly 1 (100 percent), and for
\* all sub-scores in [0, 1] the aggregated overall_relevance_score is the
\* integer nearest to 100 * sum(subscore * weight) and lies in 0..100.
C11_WeightsSumToOneScoreInRange ==
    /\ weights.topic_alignment + weights.authority_score
           + weights.audience_appeal + weights.uniqueness_factor
           + weights.engagement_potential = 100
    /\ Scored("aggregate") =>
           LET scores == call.scores
               exact == scores.topic_alignment * 35
                        + scores.authority_score * 25
                        + scores.audience_appeal * 20
                        + scores.uniqueness_factor * 10
                        + scores.engagement_potential * 10
               overall == ret.overall_relevance_score
           IN  /\ \A f \in DOMAIN scores : scores[f] \in 0..Scale
               /\ overall \in 0..100
               /\ 2 * (overall * Scale - exact) \in (0 - Scale)..Scale

\* all sub-scores 1 give 100, and a total that is no whole number
\* (1/6 for the topic alignment) has been rounded
C11_Witness ==
    /\ Scored("aggregate")
    /\ \/ /\ \A f \in DOMAIN call.scores : call.scores[f] = Scale
          /\ ret.overall_relevance_score = 100
       \/ /\ call.scores.topic_alignment = Scale \div 6
          /\ \A f \in DOMAIN call.scores \ {"topic_alignment"} :
                 call.scores[f] = Scale
          /\ ret.overall_relevance_score = 71

\* the order of the tiers
TierRank(tier) ==
    CASE tier = "NOT_RECOMMENDED" -> 0
      [] tier = "LOW_PRIORITY" -> 1
      [] tier = "CONSIDER" -> 2
      [] tier = "RECOMMENDED" -> 3
      [] tier = "HIGHLY_RECOMMENDED" -> 4

\* C12: determine_recommendation is monotonic: for all integer scores
\* s1 <= s2 in 0..100 the tier of s1 is no higher than the tier of s2.
C12_RecommendationMonotonic ==
    Scored("determine_recommendation") =>
        \A s2 \in 0..100 :
            call.overall_score <= s2 =>
                TierRank(ret.recommendation)
                    <= TierRank(determine_recommendation(s2))

\* a score just below a boundary was given its tier
C12_Witness ==
    /\ Scored("determine_recommendation")
    /\ call.overall_score = 54
    /\ ret.recommendation = "LOW_PRIORITY"

\* the bands of the tiers
Bands ==
    [ HIGHLY_RECOMMENDED |-> 85..100,
      RECOMMENDED |-> 70..84,
      CONSIDER |-> 55..69,
      LOW_PRIORITY |-> 40..54,
      NOT_RECOMMENDED |-> 0..39 ]

\* C13: for every integer score in 0..100 determine_recommendation
\* returns exactly one tier, the one whose band holds the score; the
\* bands are exhaustive and disjoint and 85, 70, 55, 40 belong to the
\* higher band.
C13_RecommendationBands ==
    Scored("determine_recommendation") =>
        /\ ret.recommendation \in DOMAIN Bands
        /\ \A tier \in DOMAIN Bands :
               (call.overall_score \in Bands[tier]) <=> (tier = ret.recommendation)

\* the boundary value 85 was given the higher tier
C13_Witness ==
    /\ Scored("determine_recommendation")
    /\ call.overall_score = 85
    /\ ret.recommendation = "HIGHLY_RECOMMENDED"

\* C14: the confidence tier is HIGH iff data_quality_score >= 70 and
\* confidence_score >= 70 and videos_analyzed >= 20; otherwise MEDIUM iff
\* the three are >= 50, >= 50 and >= 10; otherwise LOW; missing metadata
\* or videos_analyzed count as 0, hence LOW.
C14_ConfidenceTiers ==
    Scored("determine_confidence_level") =>
        LET guest_profile == call.guest_profile
            present == Has(guest_profile, "extraction_metadata")
            quality ==
                IF present
                THEN guest_profile.extraction_metadata.data_quality_score
                ELSE 0
            confidence ==
                IF present
                THEN guest_profile.extraction_metadata.confidence_score
                ELSE 0
            videos == call.host.videos_analyzed
            high == quality >= 70 /\ confidence >= 70 /\ videos >= 20
            medium == ~high /\ quality >= 50 /\ confidence >= 50 /\ videos >= 10
        IN  /\ ret.confidence_level \in {"HIGH", "MEDIUM", "LOW"}
            /\ (ret.confidence_level = "HIGH") <=> high
            /\ (ret.confidence_level = "MEDIUM") <=> medium
            /\ (~present \/ videos = 0) => ret.confidence_level = "LOW"

\* the lowest values that make HIGH (70, 70 and 20 videos) returned HIGH
C14_Witness ==
    /\ Scored("determine_confidence_level")
    /\ Has(call.guest_profile, "extraction_metadata")
    /\ call.guest_profile.extraction_metadata.data_quality_score = 70
    /\ call.guest_profile.extraction_metadata.confidence_score = 70
    /\ call.host.videos_analyzed = 20
    /\ ret.confidence_level = "HIGH"

\* C15: the scorer never fails on present-but-incomplete input: for every
\* guest profile and host analysis that are present mappings, with any
\* subset of the optional fields absent or present but empty,
\* calculate_overall_relevance_score returns a RelevanceResult and raises
\* no error.
C15_ScorerNeverFailsOnIncompleteInput ==
    Scored("calculate_overall_relevance_score") =>
        /\ ~Has(ret, "raised")
        /\ Has(ret, "overall_relevance_score")

\* C16: uniqueness_factor is always within [0.1, 1.0], whatever
\* combination of repeat-guest penalty, topic penalty and industry bonus
\* is accumulated.
C16_UniquenessWithinBounds ==
    Scored("calculate_uniqueness_factor") =>
        ret.score \in Pct(10)..Scale

\* both penalties in full: more than six sampled titles on the guest's
\* topic, then one with the guest's name, and the result is 0.1
C16_Witness ==
    /\ Scored("calculate_uniqueness_factor")
    /\ Has(call.guest_profile, "name")
    /\ Has(call.guest_profile, "expertise_areas")
    /\ Len(call.host.raw_video_data) > 7
    /\ call.host.raw_video_data[Len(call.host.raw_video_data)] = v_Title2
    /\ ret.score = Pct(10)

\* the guest and the host of the end-to-end scenario: the expertise areas
\* "artificial intelligence" and "startups" and no key topics, the
\* primary topics "technology" and "entrepreneurship"
TopicScenario ==
    /\ Scored("calculate_topic_alignment")
    /\ Get(call.guest_profile, "expertise_areas", EmptyList)
           = List(<<x_ArtificialIntelligence, x_Startups>>)
    /\ Get(call.guest_profile, "key_topics", EmptyList) = EmptyList
    /\ call.host.primary_topics = <<h_technology, h_entrepreneurship>>

\* C17 as stated: for a guest with expertise_areas ["artificial
\* intelligence", "startups"] and a host with primary_topics
\* ["technology", "entrepreneurship"], calculate_topic_alignment returns a
\* value >= 0.7.
C17_ScenarioAlignmentAtLeast70 ==
    TopicScenario => ret.score >= Pct(70)

\* C17 as amended: for that guest and that host calculate_topic_alignment
\* returns exactly 0.0: no keyword of the guest overlaps a keyword of the
\* host and no expertise string matches a topic directly, so there is no
\* bonus.
C17_ScenarioAlignmentIsZero ==
    TopicScenario => ret.score = 0

\* the scenario was scored, with the key topics left out
C17_Witness ==
    /\ TopicScenario
    /\ ~Has(call.guest_profile, "key_topics")
    /\ ret.score = 0

\* the guest of the end-to-end scenario: the authority indicators "Founder"
\* and "CEO", a twitter following of "2M", no other authority field
AuthorityScenario ==
    /\ Scored("calculate_authority_score")
    /\ Get(call.guest_profile, "authority_indicators", EmptyList)
           = List(<<i_Founder, i_CEO>>)
    /\ Get(call.guest_profile, "social_following", EmptyDict)
           = Dict(s_twitter :> Str(f_2M))
    /\ ~Has(call.guest_profile, "previous_podcasts")

\* C18 as stated: for a guest with authority_indicators ["Founder", "CEO"]
\* and social_following twitter "2M" and no other authority field,
\* calculate_authority_score returns exactly 1.0: base and bonuses reach
\* the cap.
C18_ScenarioAuthorityIsCapped ==
    AuthorityScenario => ret.score = Scale

\* C18 as amended: for that guest calculate_authority_score returns the sum
\* 0.5 + 0.2 + 0.2 of the base, the two strong indicators and the
\* follower bonus, that is 0.9, which stays below the cap of 1.0.
C18_ScenarioAuthorityIsNinety ==
    AuthorityScenario => ret.score = Pct(90)

\* the scenario was scored and came out below the cap
C18_Witness ==
    /\ AuthorityScenario
    /\ ret.score = Pct(90)
    /\ ret.score < Scale

\* C19: whenever the guest side (expertise_areas and key_topics) or the
\* host side (primary_topics) carries no data, calculate_topic_alignment
\* returns exactly 0.5, never 0 or 1; in every other case the result lies
\* within [0, 1].
C19_NeutralDefaultOnMissingData ==
    Scored("calculate_topic_alignment") =>
        LET guest_expertise ==
                Get(call.guest_profile, "expertise_areas", EmptyList)
            guest_topics == Get(call.guest_profile, "key_topics", EmptyList)
            no_guest_data == ~Truthy(guest_expertise) /\ ~Truthy(guest_topics)
            no_host_data == call.host.primary_topics = <<>>
        IN  /\ (no_guest_data \/ no_host_data) => ret.score = Pct(50)
            /\ ret.score \in 0..Scale

\* the missing-data scenario: expertise_areas present and empty,
\* primary_topics empty, and the neutral 0.5 returned
C19_Witness ==
    /\ Scored("calculate_topic_alignment")
    /\ Has(call.guest_profile, "expertise_areas")
    /\ Get(call.guest_profile, "expertise_areas", EmptyList) = EmptyList
    /\ call.host.primary_topics = <<>>
    /\ ret.score = Pct(50)

\* C20: over the five sub-scores as 0-100 values, every sub-score >= 80
\* yields its strong strength string; only if no sub-score is >= 80, every
\* sub-score >= 70 yields its softer string, so key_strengths never mixes
\* strong and softer strings; every sub-score <= 40 yields its concern
\* string; no factor contributes both a strength and a concern.
C20_StrengthsAndConcerns ==
    Scored("aggregate") =>
        LET scores == call.scores
            strengths == Range(ret.key_strengths)
            concerns == Range(ret.areas_of_concern)
            fs == Range(Factors)
            none_strong == \A f \in fs : scores[f] < Pct(80)
        IN  /\ \A f \in fs :
                   StrongStrength[f] \in strengths <=> scores[f] >= Pct(80)
            /\ \A f \in fs :
                   SofterStrength[f] \in strengths
                       <=> (none_strong /\ scores[f] >= Pct(70))
            /\ ~ \E f, g \in fs : /\ StrongStrength[f] \in strengths
                                   /\ SofterStrength[g] \in strengths
            /\ \A f \in fs : Concern[f] \in concerns <=> scores[f] <= Pct(40)
            /\ \A f \in fs :
                   ~ /\ Concern[f] \in concerns
                     /\ \/ StrongStrength[f] \in strengths
                        \/ SofterStrength[f] \in strengths
            /\ Len(ret.key_strengths) = Cardinality(strengths)
            /\ Len(ret.areas_of_concern) = Cardinality(concerns)

\* one sub-score at 80, one at 79 and one at 40: the strong string alone
\* among the strengths, and the concern of the third factor
C20_Witness ==
    /\ Scored("aggregate")
    /\ call.scores.topic_alignment = Pct(80)
    /\ call.scores.authority_score = Pct(79)
    /\ call.scores.audience_appeal = Pct(40)
    /\ call.scores.uniqueness_factor = Pct(41)
    /\ call.scores.engagement_potential = Pct(41)
    /\ ret.key_strengths = <<StrongStrength.topic_alignment>>
    /\ ret.areas_of_concern = <<Concern.audience_appeal>>

\* the cache after the analysis `host_analysis` was stored for `key` at `now`
Overwritten(key, host_analysis) ==
    /\ DOMAIN host_cache' = DOMAIN host_cache \cup {key}
    /\ host_cache'[key] = [data |-> host_analysis, timestamp |-> now]
    /\ \A k \in DOMAIN host_cache \ {key} : host_cache'[k] = host_cache[k]

\* the single-guest path leaves line 97 with a fresh analysis in hand
SingleStoreStep ==
    pc = "host_store" /\ pc' = "score"

\* the batch path leaves line 368
BatchStoreStep ==
    pc = "b_store" /\ pc' = "b_loop"

\* C21 as stated: the cache holds at most one entry per channel key, and
\* every time the orchestrator obtains a fresh HostAnalysis from the analyzer
\* for key k (single-guest path with either value of use_cache, or batch
\* path), the entry for k is overwritten with that analysis and its
\* created_at is reset to the time of that computation.
C21_FreshAnalysisAlwaysOverwrites ==
    [][ /\ (SingleStoreStep /\ ~cur.host_analysis.error) =>
               Overwritten(cur.host_channel_url, cur.host_analysis)
        /\ BatchStoreStep =>
               Overwritten(call.host_channel_url, batch.host_analysis) ]_vars

\* C21 as amended: the cache holds at most one entry per channel key; a
\* fresh analysis is stored under its key, with created_at reset to the
\* time of the store, on the batch path always and on the single-guest path
\* when use_cache is true and the analysis carries no 'error'; on the
\* single-guest path with use_cache false, or with an error record, the
\* cache is left as it was.
C21_FreshAnalysisOverwritesWhenCaching ==
    [][ /\ SingleStoreStep =>
               IF cur.use_cache /\ ~cur.host_analysis.error
               THEN Overwritten(cur.host_channel_url, cur.host_analysis)
               ELSE host_cache' = host_cache
        /\ BatchStoreStep =>
               Overwritten(call.host_channel_url, batch.host_analysis)
        /\ DOMAIN host_cache' \subseteq Channels ]_vars

\* the entry a batch wrote at its start has expired when its guest looks it
\* up: the second analysis has replaced it and created_at is the later time
C21_Witness ==
    /\ call.kind = "batch"
    /\ pc = "score"
    /\ analyzer_calls = 2
    /\ cur.host_analysis.id = 2
    /\ ~cur.host_analysis.error
    /\ now >= TTL
    /\ host_cache[cur.host_channel_url]
           = [data |-> cur.host_analysis, timestamp |-> now]

\* the tasks inside analyze_host_channel for the channel `key`
InFlight(key) ==
    { t \in DOMAIN tasks :
        /\ tasks[t].pos \in {"analyzing", "b_analyzing"}
        /\ tasks[t].host_channel_url = key }

\* C22: when single-guest analyses or batches for the same channel key run
\* as concurrent tasks on one shared tracker, suspending only at the awaits
\* the code contains, two invocations of the host analyzer for that key are
\* never in progress at the same time.
C22_AtMostOneComputeInFlight ==
    \A key \in Channels : Cardinality(InFlight(key)) <= 1

\* two tasks for one channel are under way: one is inside the analyzer,
\* the other has started and is suspended before its own cache check
C22_Witness ==
    \E t, u \in DOMAIN tasks :
        /\ t # u
        /\ tasks[t].host_channel_url = tasks[u].host_channel_url
        /\ tasks[t].pos = "analyzing"
        /\ tasks[u].pos = "suspended"

\* the guest's lowercased name is a substring of the lowercased title
NameIn(guest_profile, title) ==
    IsSubstr(Lower(Get(guest_profile, "name", EmptyStr).v), Lower(title))

\* one of the guest's lowercased expertise areas is a substring of the title
TopicIn(guest_profile, title) ==
    LET areas == Items(Get(guest_profile, "expertise_areas", EmptyList))
    IN  \E e \in DOMAIN areas : IsSubstr(Lower(areas[e]), Lower(title))

\* what the call subtracted from the base 0.7, the industry bonus set apart
\* (no score of these calls is cut by the clamp unless the penalty exceeds
\* 0.6)
PenaltyApplied ==
    LET guest_industry == Lower(Get(call.guest_profile, "industry", EmptyStr).v)
        bonus == IF /\ guest_industry # <<>>
                    /\ ~\E t \in DOMAIN call.host.primary_topics :
                           IsSubstr(guest_industry,
                                    Lower(call.host.primary_topics[t]))
                 THEN Pct(10) ELSE 0
    IN  Pct(70) + bonus - ret.score

\* C23: in calculate_uniqueness_factor the two penalties are mutually
\* exclusive: if the guest's lowercased name is a substring of any sampled
\* title, the total penalty is exactly the flat 0.3, whatever titles precede
\* or follow the matching one; only when no title contains the name is the
\* topic penalty min(0.3, 0.05 per matching title) applied.
C23_PenaltiesMutuallyExclusive ==
    Scored("calculate_uniqueness_factor") =>
        LET titles == call.host.raw_video_data
            appeared == \E i \in DOMAIN titles :
                            NameIn(call.guest_profile, titles[i])
            matching == Cardinality({ i \in DOMAIN titles :
                            TopicIn(call.guest_profile, titles[i]) })
        IN  PenaltyApplied = IF appeared
                             THEN Pct(30)
                             ELSE Min(Pct(30), matching * Pct(5))

\* C24: after any sequence of single-guest and batch operations the host
\* cache never contains a host-analysis record that carries an 'error'
\* field: a failed host analysis is never cached and never served to a later
\* analysis.
C24_NoErrorRecordCached ==
    \A key \in DOMAIN host_cache : ~host_cache[key].data.error

\* C25: in single-guest analysis, when the host analyzer reports failure by
\* returning an error record, the operation returns an error record; it
\* never returns a successful result whose score was computed against the
\* error record.
C25_HostFailureYieldsErrorRecord ==
    (/\ pc = "return"
     /\ call.kind = "single"
     /\ InvokedForCurrentGuest
     /\ cur.host_analysis.error) => Has(ret, "error")

\* C26: PodcastGuestTrackerAPI.analyze_single_guest reports success=True
\* only when the underlying analysis succeeded: whenever
\* analyze_podcast_guest_complete ends in failure (its record carries an
\* 'error' field) the response has success=False or a top-level 'error',
\* never success=True.
C26_ApiSuccessOnlyOnSuccess ==
    (call.kind = "api" /\ pc = "idle" /\ response # None /\ ret # None
        /\ Has(ret, "error"))
        => \/ Has(response, "error")
           \/ (Has(response, "success") /\ ~response.success)

\* C27: a guest whose name is missing or empty never receives the
\* repeat-guest penalty: for such a guest and any non-empty list of sampled
\* titles, calculate_uniqueness_factor does not subtract the flat 0.3 and
\* does not stop scanning before the topic count is complete.
C27_NoRepeatPenaltyWithoutName ==
    (/\ Scored("calculate_uniqueness_factor")
     /\ Get(call.guest_profile, "name", EmptyStr) = EmptyStr
     /\ call.host.raw_video_data # << >>) =>
        LET titles == call.host.raw_video_data
            matching == Cardinality({ i \in DOMAIN titles :
                            TopicIn(call.guest_profile, titles[i]) })
        IN  PenaltyApplied = Min(Pct(30), matching * Pct(5))

\* C28: for every guest profile and host analysis authority_score is within
\* [0.5, 1.0], audience_appeal within [0.6, 1.0] and engagement_potential
\* within [0.5, 1.0]; hence areas_of_concern can only contain the
\* topic-alignment concern and the uniqueness concern.
C28_OnlyTopicAndUniquenessConcerns ==
    /\ Scored("calculate_authority_score") => ret.score \in Pct(50)..Scale
    /\ (Scored("calculate_overall_relevance_score") /\ ~Has(ret, "raised")) =>
           /\ ret.score_breakdown.authority_score.score \in 50..100
           /\ ret.score_breakdown.audience_appeal.score \in 60..100
           /\ ret.score_breakdown.engagement_potential.score \in 50..100
           /\ Range(ret.areas_of_concern)
                  \subseteq {Concern.topic_alignment, Concern.uniqueness_factor}

\* a guest with nothing but unrelated expertise: authority, audience appeal
\* and engagement stay at their bases and raise no concern, while topic
\* alignment and uniqueness do
C28_Witness ==
    /\ Scored("calculate_overall_relevance_score")
    /\ ~Has(ret, "raised")
    /\ ret.score_breakdown.authority_score.score = 50
    /\ ret.score_breakdown.engagement_potential.score = 50
    /\ ret.score_breakdown.audience_appeal.score = 60
    /\ ret.areas_of_concern
           = <<Concern.topic_alignment, Concern.uniqueness_factor>>

\* the guest-profile step of the single-guest analysis with locals `c` fails
GuestStepFails(c) ==
    c # None /\ GuestAnalysisRaises(c.guest_url)

\* C29: if the guest-profile step of a single-guest analysis fails, the host
\* analyzer is never invoked for that call and the host cache (its key set,
\* every entry's data and created_at) is left unchanged.
C29_FailedGuestStepLeavesCache ==
    [][ (GuestStepFails(cur) \/ GuestStepFails(cur')) =>
            /\ host_cache' = host_cache
            /\ analyzer_calls' = analyzer_calls
            /\ (pc' = "return" => /\ Has(ret', "error")
                                  /\ cur'.host_analysis = None) ]_vars

\* a call whose guest step failed has returned its error record, and the
\* entry an earlier call cached is still there
C29_Witness ==
    /\ call.kind = "single"
    /\ pc = "return"
    /\ GuestStepFails(cur)
    /\ Has(ret, "error")
    /\ ~InvokedForCurrentGuest
    /\ cur.host_channel_url \in DOMAIN host_cache
    /\ host_cache[cur.host_channel_url].timestamp < now

\* the first element alone of a list
FirstOnly(list) ==
    SubSeq(list, 1, Min(1, Len(list)))

\* C30: generate_fallback_validation is a total, deterministic function of
\* (score, tier, first strength, first concern): for HIGHLY_RECOMMENDED and
\* RECOMMENDED it cites the first strength when one exists; for CONSIDER the
\* first strength and the first concern only when both lists are non-empty;
\* for every other tier value the first concern when one exists; in every
\* case it returns a text that states the score and reads nothing beyond the
\* first element of either list.
C30_FallbackFromFirstElements ==
    Scored("generate_fallback_validation") =>
        LET ra == call.relevance_analysis
            tier == ra.recommendation
            strengths == ra.key_strengths
            concerns == ra.areas_of_concern
            text == ret.text
            cited_strength ==
                IF tier \in {"HIGHLY_RECOMMENDED", "RECOMMENDED"}
                THEN strengths # << >>
                ELSE tier = "CONSIDER" /\ strengths # << >> /\ concerns # << >>
            cited_concern ==
                IF tier \in {"HIGHLY_RECOMMENDED", "RECOMMENDED"}
                THEN FALSE
                ELSE IF tier = "CONSIDER"
                THEN strengths # << >> /\ concerns # << >>
                ELSE concerns # << >>
        IN  /\ text.t = "fallback"
            /\ text.template # ""
            /\ text.score = ra.overall_relevance_score
            /\ text.strength = IF cited_strength THEN strengths[1] ELSE ""
            /\ text.concern = IF cited_concern THEN concerns[1] ELSE ""
            /\ text = generate_fallback_validation(
                          [ra EXCEPT !.key_strengths = FirstOnly(strengths),
                                     !.areas_of_concern = FirstOnly(concerns)])

\* a tier that is none of the five, with two concerns: the first is cited
C30_Witness ==
    /\ Scored("generate_fallback_validation")
    /\ call.relevance_analysis.recommendation = "UNKNOWN"
    /\ Len(call.relevance_analysis.areas_of_concern) = 2
    /\ ret.text.concern = call.relevance_analysis.areas_of_concern[1]
    /\ ret.text.concern = Concern.uniqueness_factor
    /\ ret.text.score = 48

====
